---- MODULE Spec2Model ----
(***************************************************************************)
(* BestWPlaneDataAccessor (askap/dataaccess/BestWPlaneDataAccessor.cc):    *)
(* an adapter that fits a plane w = A*u + B*v into the rotated uvw's of    *)
(* the current chunk and returns the uvw's with the plane subtracted.      *)
(*                                                                         *)
(* Doubles are modelled by rationals <<n, d>> (d > 0, lowest terms).  The   *)
(* arithmetic is exact for the arrays of Sources; for the arrays of        *)
(* RoundingSources every operation rounds its result to the nearest number *)
(* of MantissaBits significant bits, as an operation on doubles rounds to  *)
(* 53.  Lengths are in metres; frequencies are in units of c Hz, so that   *)
(* the speed of light is 1 and tolInMetres = itsWTolerance / maxFreq.      *)
(* Directions are longitudes on a circle of NumPositions grid units, one   *)
(* unit being the Earth rotation of one second (`angle' at line 279).      *)
(*                                                                         *)
(* CalParamNameHelper (askap/calibaccess/CalParamNameHelper.cc),           *)
(* TableDataAccessor (askap/dataaccess/TableDataAccessor.cc) and           *)
(* JonesIndex (askap/calibaccess/JonesIndex.cc) are modelled further down, *)
(* each with a specification of its own.                                   *)
(***************************************************************************)
EXTENDS Integers, Sequences, FiniteSets, TLC

VARIABLES
    inst,           \* the adapters: inst[i] is the record of the data members of adapter i
    changeMonitor,  \* changeMonitor() of the adapter base class (the source-change epoch)
    chunk,          \* the chunk (time, in seconds) the associated accessor is at
    frequency,      \* acc.frequency() of the current chunk
    source,         \* which array geometry the associated accessor serves
    frame,          \* locals of a call of updateAdvancedTimePlaneIfNecessary in progress
    last,           \* what the last operation was and what it returned
    names,          \* CalParamNameHelper: the parameter name in hand and the last call on it
    table,          \* TableDataAccessor: its data members, its iterator and the last call
    index           \* JonesIndex: three indices and the comparisons last made of them

vars ==
    <<inst, changeMonitor, chunk, frequency, source, frame, last, names, table, index>>

(***************************** bounds ***************************************)
NumPositions == 9       \* grid units in a full turn of the longitude
MaxChunk == 1           \* chunks 0..MaxChunk are iterated
MaxPlaneEpoch == 2      \* calls are not started beyond this value of the plane monitor
MaxAssign == 2          \* assignments onto one adapter
MantissaBits == 5       \* significant bits of a number where rounding is modelled

(************************* program constants *******************************)
DetTolNum == 1          \* the determinant threshold 1e-7 = DetTolNum / DetTolDen
DetTolDen == 10000000
DefaultDirection == 1000 \* a default-constructed casacore::MDirection (no grid direction)

Instances == {1, 2}

(************************ exact rational arithmetic *************************)
Abs(x) == IF x < 0 THEN -x ELSE x

RECURSIVE GCD(_, _)
GCD(a, b) == IF b = 0 THEN a ELSE GCD(b, a % b)

Rat(n, d) ==
    LET s == IF d < 0 THEN -1 ELSE 1
        g == GCD(Abs(n), Abs(d))
    IN  <<(s * n) \div g, (s * d) \div g>>

Zero == <<0, 1>>
FromInt(n) == <<n, 1>>
RAdd(a, b) == Rat(a[1] * b[2] + b[1] * a[2], a[2] * b[2])
RSub(a, b) == Rat(a[1] * b[2] - b[1] * a[2], a[2] * b[2])
RMul(a, b) == Rat(a[1] * b[1], a[2] * b[2])
RAbs(a) == <<Abs(a[1]), a[2]>>
RLess(a, b) == a[1] * b[2] < b[1] * a[2]

(***************************************************************************)
(* The accessor the adapter is associated with.  rotatedUVW(tangentPoint)  *)
(* of the accessor gives one (u,v,w) per row.  Shifting the tangent point  *)
(* by the Earth rotation of s seconds shows the array as it is s seconds   *)
(* later, so the geometry depends on chunk - tangentPoint only.            *)
(***************************************************************************)
Sources ==
    {"drift", "fastdrift", "static", "warped", "bending", "turning",
     "colinear", "flat", "single", "empty"}

\* arrays that lie exactly on a plane w = A0*u + B0*v, the plane turning with
\* the position: the (u,v) of the rows and the plane at position p
PlanarSources == {"planar2", "planar4", "settling"}

Layout(s, p) ==
    CASE s = "planar2" -> << <<2, 1>>, <<-1, 3>> >>
      [] s = "planar4" -> << <<6, 0>>, <<0, 6>>, <<6, 6>>, <<12, -6>> >>
      [] OTHER         -> IF p % 2 = 0 THEN << <<2, 0>>, <<0, 1>> >>
                          ELSE << <<1, 0>>, <<0, 1>> >>

\* "settling" is flat (w = 0 in every row) at the odd positions
PlaneOf(s, p) ==
    CASE s = "planar2" -> [A |-> FromInt(p - 3), B |-> FromInt(2)]
      [] s = "planar4" -> [A |-> Rat(p - 4, 2), B |-> Rat(p + 1, 3)]
      [] OTHER         -> IF p % 2 = 0 THEN [A |-> FromInt(1), B |-> Zero]
                          ELSE [A |-> Zero, B |-> Zero]

\* the rows of a layout on a plane (the layouts make every w an integer)
OnPlane(plane, layout) ==
    [row \in 1..Len(layout) |->
        <<layout[row][1], layout[row][2],
          (plane.A[1] * layout[row][1]) \div plane.A[2]
              + (plane.B[1] * layout[row][2]) \div plane.B[2]>>]

SourceRows(s, p) ==
    CASE s = "drift"     -> << <<1, 0, p>>, <<0, 1, 0>> >>
      [] s = "fastdrift" -> << <<1, 0, 2 * p>>, <<0, 1, 0>> >>
      [] s = "static"    -> << <<1, 0, 1>>, <<0, 1, 2>> >>
      [] s = "warped"    -> << <<1, 0, 0>>, <<0, 1, 0>>, <<1, 1, 3>> >>
      [] s = "bending"   -> << <<1, 0, p>>, <<0, 1, 0>>, <<1, 1, 2>> >>
      [] s = "turning"   -> IF p % 2 = 0
                            THEN << <<1, 0, p>>, <<0, 1, 1>> >>
                            ELSE << <<1, 0, p>>, <<2, 0, 1>> >>
      [] s = "colinear"  -> << <<1, 1, 1>>, <<2, 2, 3>> >>
      [] s = "flat"      -> << <<1, 0, 0>>, <<0, 1, 0>>, <<1, 1, 0>> >>
      [] s = "single"    -> << <<1, 1, 2>> >>
      [] s = "lone"      -> << <<9, 7, p>> >>
      [] s = "pair"      -> << <<9, 7, p>>, <<18, 14, 1>> >>
      [] s = "lever"     -> << <<3, 0, 1>>, <<1, 0, -1>>, <<0, 1, p>> >>
      [] s \in PlanarSources -> OnPlane(PlaneOf(s, p), Layout(s, p))
      [] OTHER           -> << >>

\* the arrays whose coordinates are large enough for the rounding of the
\* arithmetic to show
RoundingSources == {"lone", "pair"}

accRotatedUVW(tangentPoint) ==
    SourceRows(source, (chunk - tangentPoint) % NumPositions)

FreqLists == { << >>, <<1>>, <<1, 3, 2>> }

TangentPoints == {0, 2}

\* casacore::MDirection::shiftLongitude on the grid
shiftLongitude(tangentPoint, units) ==
    IF tangentPoint = DefaultDirection THEN tangentPoint
    ELSE (tangentPoint + units) % NumPositions

\* UVWMachineCache::compare(a, b, 1e-6): a grid unit is 7.3e-5 rad, so two grid
\* directions are within the tolerance exactly when they are the same one
compare(a, b) == Abs(a - b) < 1

\* a local variable: x is computed once and F is the code that uses it
With(x, F(_)) == CHOOSE r \in {F(v) : v \in {x}} : TRUE

(************************ floating-point arithmetic *************************)
\* the exponent e of a/d: 2^(MantissaBits-1) <= (a/d) / 2^e < 2^MantissaBits
RECURSIVE Exponent(_, _, _)
Exponent(a, d, e) ==
    IF e >= 0
    THEN IF a >= d * 2^(MantissaBits + e) THEN Exponent(a, d, e + 1)
         ELSE IF a < d * 2^(MantissaBits - 1 + e) THEN Exponent(a, d, e - 1)
         ELSE e
    ELSE IF a * 2^(-e) < d * 2^(MantissaBits - 1) THEN Exponent(a, d, e - 1)
         ELSE e

\* n/d rounded to the nearest integer, a tie to the even one
NearestEven(n, d) ==
    LET q == n \div d
        r == n % d
    IN  IF 2 * r > d \/ (2 * r = d /\ q % 2 = 1) THEN q + 1 ELSE q

\* x rounded to MantissaBits significant bits, e being its exponent
RoundAt(x, e) ==
    LET s == IF x[1] < 0 THEN -1 ELSE 1
    IN  IF e < 0
        THEN Rat(s * NearestEven(Abs(x[1]) * 2^(-e), x[2]), 2^(-e))
        ELSE FromInt(s * NearestEven(Abs(x[1]), x[2] * 2^e) * 2^e)

Round(x) == IF x[1] = 0 THEN Zero ELSE RoundAt(x, Exponent(Abs(x[1]), x[2], 0))

\* the result of one operation on doubles whose exact value is x
Fl(x) == IF source \in RoundingSources THEN With(x, Round) ELSE x

\* the same for an integer result (an integer rounds to an integer)
FlInt(k) == IF source \in RoundingSources THEN Round(FromInt(k))[1] ELSE k

FAdd(a, b) == With(a, LAMBDA x : With(b, LAMBDA y : Fl(RAdd(x, y))))
FSub(a, b) == With(a, LAMBDA x : With(b, LAMBDA y : Fl(RSub(x, y))))
FMul(a, b) == With(a, LAMBDA x : With(b, LAMBDA y : Fl(RMul(x, y))))

(************************** the fit and the metric **************************)
\* |a*u + b*v - w| of one row
Deviation(a, b, row) ==
    RAbs(FSub(FAdd(FMul(a, FromInt(row[1])), FMul(b, FromInt(row[2]))),
              FromInt(row[3])))

\* the deviation of the last row in place of the largest
maxWDeviationLast(a, b, uvw) ==
    IF Len(uvw) = 0 THEN Zero ELSE Deviation(a, b, uvw[Len(uvw)])

maxWDeviation(a, b, uvw) ==
    LET F[n \in 0..Len(uvw)] ==
            IF n = 0 THEN Zero
            ELSE LET deviation == Deviation(a, b, uvw[n])
                     maxDeviation == F[n - 1]
                 IN  IF RLess(maxDeviation, deviation) THEN deviation ELSE maxDeviation
    IN  F[Len(uvw)]

\* sum over the rows of the product of coordinates i and j
SumOfProducts(uvw, i, j) ==
    LET F[n \in 0..Len(uvw)] ==
            IF n = 0 THEN 0 ELSE FlInt(F[n - 1] + FlInt(uvw[n][i] * uvw[n][j]))
    IN  F[Len(uvw)]

\* the determinant test left out
SingularNever(D) == FALSE

\* fabs(D) < 1e-7, for the integer D of integer coordinates
Singular(D) == Abs(D) <= (DetTolNum - 1) \div DetTolDen

\* the numerator of A with su2 in the place of sv2
CoeffANumeratorSwapped(su2, sv2, suv, suw, svw) ==
    FlInt(FlInt(su2 * suw) - FlInt(suv * svw))

CoeffANumerator(su2, sv2, suv, suw, svw) ==
    FlInt(FlInt(sv2 * suw) - FlInt(suv * svw))
CoeffBNumerator(su2, sv2, suv, suw, svw) ==
    FlInt(FlInt(su2 * svw) - FlInt(suv * suw))

\* the least-squares fit w = A*u + B*v: the determinant and, if it is not
\* singular, the coefficients
LSF(uvw) ==
    LET su2 == SumOfProducts(uvw, 1, 1)
        sv2 == SumOfProducts(uvw, 2, 2)
        suv == SumOfProducts(uvw, 1, 2)
        suw == SumOfProducts(uvw, 1, 3)
        svw == SumOfProducts(uvw, 2, 3)
        D == FlInt(FlInt(su2 * sv2) - FlInt(suv * suv))
    IN  [D |-> D,
         singular |-> Singular(D),
         A |-> IF D = 0 THEN Zero
               ELSE Fl(Rat(CoeffANumerator(su2, sv2, suv, suw, svw), D)),
         B |-> IF D = 0 THEN Zero
               ELSE Fl(Rat(CoeffBNumerator(su2, sv2, suv, suw, svw), D))]

\* ChangeMonitor::notifyOfChanges
notifyOfChanges(monitor) == monitor + 1


(****************************** tolerances **********************************)
\* the comparison the wrong way round
BelowToleranceInverted(deviation, tolerance) == RLess(tolerance, deviation)

\* deviation < tolerance (lines 149, 219, 286, 383)
BelowTolerance(deviation, tolerance) == RLess(deviation, tolerance)

\* a test that no deviation fails
AboveToleranceNever(deviation, tolerance) == FALSE

\* deviation > tolerance (lines 271, 349)
AboveTolerance(deviation, tolerance) == RLess(tolerance, deviation)

\* freq.nelements() == 1 ? freq[0] : max(freq[0], freq[freq.nelements()-1])
maxFreq(freq) ==
    IF Len(freq) = 1 THEN freq[1]
    ELSE IF freq[1] > freq[Len(freq)] THEN freq[1] ELSE freq[Len(freq)]

\* itsWTolerance * casacore::C::c / maxFreq, in the units of this model
tolInMetres(wTolerance, freq) == Fl(Rat(wTolerance, maxFreq(freq)))

(********************** the Reactive policy (lines 375-420) *****************)
\* the rows of the chunk are enough for a fit to be attempted
EnoughRows(uvw) == ~(Len(uvw) < 2)

\* the coefficients written without notifying the plane monitor
CommitSilently(me, a, b) == [me EXCEPT !.itsCoeffA = a, !.itsCoeffB = b]

\* the adapter with a new plane committed
Commit(me, a, b) ==
    [me EXCEPT !.itsCoeffA = a, !.itsCoeffB = b,
               !.itsPlaneChangeMonitor = notifyOfChanges(me.itsPlaneChangeMonitor)]

\* the Reactive policy returning, after a fit, the deviation it found before it
updatePlaneIfNecessaryStale(me, uvw, tolerance) ==
    With(maxWDeviation(me.itsCoeffA, me.itsCoeffB, uvw), LAMBDA maxDeviation :
        IF ~EnoughRows(uvw) \/ BelowTolerance(maxDeviation, tolerance)
        THEN [me |-> me, result |-> maxDeviation, exit |-> "within",
              advances |-> 0, iterations |-> 0, commits |-> 0]
        ELSE With(LSF(uvw), LAMBDA fit :
            IF fit.singular
            THEN [me |-> me, result |-> maxDeviation, exit |-> "singular",
                  advances |-> 0, iterations |-> 0, commits |-> 0]
            ELSE [me |-> Commit(me, fit.A, fit.B), result |-> maxDeviation,
                  exit |-> "fitted", advances |-> 0, iterations |-> 0,
                  commits |-> 1]))

updatePlaneIfNecessary(me, uvw, tolerance) ==
    With(maxWDeviation(me.itsCoeffA, me.itsCoeffB, uvw), LAMBDA maxDeviation :
        IF ~EnoughRows(uvw) \/ BelowTolerance(maxDeviation, tolerance)
        THEN [me |-> me, result |-> maxDeviation, exit |-> "within",
              advances |-> 0, iterations |-> 0, commits |-> 0]
        ELSE With(LSF(uvw), LAMBDA fit :
            IF fit.singular
            THEN [me |-> me, result |-> maxDeviation, exit |-> "singular",
                  advances |-> 0, iterations |-> 0, commits |-> 0]
            ELSE With(Commit(me, fit.A, fit.B), LAMBDA fitted :
                [me |-> fitted,
                 result |-> maxWDeviation(fitted.itsCoeffA, fitted.itsCoeffB, uvw),
                 exit |-> "fitted", advances |-> 0, iterations |-> 0,
                 commits |-> 1])))

(********************* the Predictive policy (lines 198-359) ****************)
\* the locals of updateAdvancedTimePlaneIfNecessary when no call is in progress
IdleFrame ==
    [pc |-> "idle", who |-> 1, tangentPoint |-> 0, tolerance |-> Zero,
     originalUVW |-> << >>, newTangentPoint |-> 0, TimeShift |-> 0,
     tmpCoeffA |-> Zero, tmpCoeffB |-> Zero,
     AdvancedDeviation |-> Zero, on_exit_deviation |-> Zero,
     result |-> Zero, exit |-> "none",
     advances |-> 0, iterations |-> 0, commits |-> 0]

\* the deviation of the last test of the do-while returned in place of a fresh one
FinalDeviationStale(me, uvw, on_exit_deviation) == on_exit_deviation

\* the value the search returns at its end (line 356)
FinalDeviation(me, uvw, on_exit_deviation) ==
    maxWDeviation(me.itsCoeffA, me.itsCoeffB, uvw)

\* lines 198-284: up to the head of the time-advance loop
PredictEnter(me, who, tolerance, tangentPoint, originalUVW) ==
    With(accRotatedUVW(tangentPoint), LAMBDA uvw :
    With(maxWDeviation(me.itsCoeffA, me.itsCoeffB, uvw), LAMBDA current :
    With([IdleFrame EXCEPT !.pc = "return", !.who = who,
                           !.tangentPoint = tangentPoint,
                           !.tolerance = tolerance,
                           !.originalUVW = originalUVW,
                           !.newTangentPoint = tangentPoint,
                           !.TimeShift = me.itsPredictTimeInterval,
                           !.AdvancedDeviation = current,
                           !.result = current, !.exit = "within"], LAMBDA f0 :
        IF BelowTolerance(current, tolerance) THEN f0
        ELSE With(LSF(uvw), LAMBDA fit :
            IF fit.singular THEN [f0 EXCEPT !.exit = "singular"]
            ELSE With(maxWDeviation(fit.A, fit.B, uvw), LAMBDA refitted :
                IF AboveTolerance(refitted, tolerance)
                THEN [f0 EXCEPT !.tmpCoeffA = fit.A, !.tmpCoeffB = fit.B,
                                !.AdvancedDeviation = refitted,
                                !.result = refitted, !.exit = "hard"]
                ELSE [f0 EXCEPT !.pc = "advance",
                                !.tmpCoeffA = fit.A, !.tmpCoeffB = fit.B,
                                !.AdvancedDeviation = refitted,
                                !.exit = "none"])))))

\* lines 286-306: the test of the while loop and one pass of its body
PredictAdvance(f) ==
    LET shifted == shiftLongitude(f.newTangentPoint, -1 * f.TimeShift)
        test_uvw == accRotatedUVW(shifted)
    IN  IF BelowTolerance(f.AdvancedDeviation, f.tolerance)
        THEN [f EXCEPT !.newTangentPoint = shifted,
                       !.AdvancedDeviation = maxWDeviation(f.tmpCoeffA, f.tmpCoeffB, test_uvw),
                       !.advances = IF f.advances < NumPositions THEN f.advances + 1
                                    ELSE f.advances]
        ELSE [f EXCEPT !.pc = "rollback"]

\* lines 310-356: one pass of the do-while body, its test and the final return;
\* gives the frame and the adapter after the pass
PredictRollback(f, me) ==
    With(maxWDeviation(me.itsCoeffA, me.itsCoeffB, accRotatedUVW(f.tangentPoint)),
         LAMBDA on_exit_deviation :
    With(shiftLongitude(f.newTangentPoint, f.TimeShift), LAMBDA rolled :
    With([f EXCEPT !.on_exit_deviation = on_exit_deviation,
                   !.newTangentPoint = rolled,
                   !.iterations = IF f.iterations <= NumPositions
                                  THEN f.iterations + 1 ELSE f.iterations], LAMBDA g :
    With(LSF(accRotatedUVW(rolled)), LAMBDA fit :
        IF fit.singular
        THEN [frame |-> [g EXCEPT !.pc = "return", !.result = on_exit_deviation,
                                  !.exit = "singularInLoop"],
              me |-> me]
        ELSE With(Commit(me, fit.A, fit.B), LAMBDA fitted :
            IF AboveTolerance(on_exit_deviation, f.tolerance)
            THEN [frame |-> [g EXCEPT !.commits = f.commits + 1], me |-> fitted]
            ELSE [frame |-> [g EXCEPT !.pc = "return", !.commits = f.commits + 1,
                                      !.result = FinalDeviation(fitted,
                                                     accRotatedUVW(f.tangentPoint),
                                                     on_exit_deviation),
                                      !.exit = "fitted"],
                  me |-> fitted])))))

\* the search never leaves a loop: after NumPositions advances the tangent point
\* and the deviation are those of the first test of the loop, and a pass of the
\* do-while after more than NumPositions passes repeats an earlier one
Hangs(f) ==
    \/ f.pc = "advance" /\ f.advances >= NumPositions
                        /\ BelowTolerance(f.AdvancedDeviation, f.tolerance)
    \/ f.pc = "rollback" /\ f.iterations > NumPositions

\* the next statement of the search: s is the frame and the adapter
PredictStep(s) ==
    IF s.frame.pc \in {"return", "hang"} THEN s
    ELSE IF Hangs(s.frame)
    THEN [frame |-> [s.frame EXCEPT !.pc = "hang", !.exit = "hang"], me |-> s.me]
    ELSE IF s.frame.pc = "advance"
    THEN [frame |-> PredictAdvance(s.frame), me |-> s.me]
    ELSE PredictRollback(s.frame, s.me)

\* the search run to its return: at most NumPositions + 1 tests of the while
\* loop and NumPositions + 2 passes of the do-while are made before it has
\* returned or is known to hang; PredictSteps(s, n) is n statements from s
RECURSIVE PredictSteps(_, _)
PredictSteps(s, n) ==
    IF n = 0 THEN s
    ELSE IF n = 1 THEN PredictStep(s)
    ELSE With(PredictSteps(s, n \div 2), LAMBDA m : PredictSteps(m, n - n \div 2))

RunPredict(f, me) == PredictSteps([frame |-> f, me |-> me], 2 * NumPositions + 4)

updateAdvancedTimePlaneIfNecessary(me, tolerance, tangentPoint) ==
    With(RunPredict(PredictEnter(me, 1, tolerance, tangentPoint, << >>), me), LAMBDA r :
        [me |-> r.me, result |-> r.frame.result, exit |-> r.frame.exit,
         advances |-> r.frame.advances, iterations |-> r.frame.iterations,
         commits |-> r.frame.commits])


(************************* rotatedUVW (lines 103-164) ***********************)
\* casacore::Vector::resize: a buffer of another length is replaced by one of
\* default-constructed (zero) rows
Resized(buffer, n) ==
    IF Len(buffer) # n THEN [row \in 1..n |-> <<0, 0, Zero>>] ELSE buffer

\* lines 155-160: each row with the plane of the adapter subtracted from w
Corrected(a, b, originalUVW) ==
    [row \in 1..Len(originalUVW) |->
        <<originalUVW[row][1], originalUVW[row][2],
          FSub(FromInt(originalUVW[row][3]),
               FAdd(FMul(a, FromInt(originalUVW[row][1])),
                    FMul(b, FromInt(originalUVW[row][2]))))>>]

\* the test of line 111: nothing changed since the buffer was filled
NoChangeDetected(me) == me.itsUVWChangeMonitor = changeMonitor

\* the check of the channels asking for one channel more
HasChannelsButOne(freq) == Len(freq) >= 2

\* freq.nelements() >= 1 (line 133)
HasChannels(freq) == Len(freq) >= 1

\* lines 105-138: up to the choice of the policy
Prologue(me, tangentPoint) ==
    LET originalUVW == accRotatedUVW(tangentPoint)
        me1 == [me EXCEPT !.itsLastTangentPoint = tangentPoint,
                          !.itsRotatedUVW = Resized(me.itsRotatedUVW, Len(originalUVW))]
    IN  IF NoChangeDetected(me)
        THEN [stage |-> IF compare(tangentPoint, me.itsLastTangentPoint)
                        THEN "cached" ELSE "TangentPointMismatch",
              me |-> me, originalUVW |-> << >>, tolerance |-> Zero]
        ELSE IF ~HasChannels(frequency)
        THEN [stage |-> "ZeroChannels", me |-> me1,
              originalUVW |-> originalUVW, tolerance |-> Zero]
        ELSE [stage |-> "policy", me |-> me1, originalUVW |-> originalUVW,
              tolerance |-> tolInMetres(me.itsWTolerance, frequency)]

\* the residual check with <= in place of <
ResidualAcceptedAtTolerance(me, maxDeviation, tolerance) ==
    me.itsCheckResidual => ~RLess(tolerance, maxDeviation)

\* the residual check of lines 148-152 lets the call go on
ResidualAccepted(me, maxDeviation, tolerance) ==
    me.itsCheckResidual => BelowTolerance(maxDeviation, tolerance)

\* lines 148-163: the residual check and the filling of the buffer
Epilogue(me, originalUVW, maxDeviation, tolerance) ==
    IF ~ResidualAccepted(me, maxDeviation, tolerance)
    THEN [outcome |-> "ToleranceExceeded", me |-> me, returned |-> << >>]
    ELSE LET filled == Corrected(me.itsCoeffA, me.itsCoeffB, originalUVW)
         IN  [outcome |-> "ok", me |-> [me EXCEPT !.itsRotatedUVW = filled],
              returned |-> filled]

\* the policy of the adapter applied to the chunk
Policy(me, originalUVW, tolerance, tangentPoint) ==
    IF me.itsPredictWPlane = FALSE
    THEN updatePlaneIfNecessary(me, originalUVW, tolerance)
    ELSE updateAdvancedTimePlaneIfNecessary(me, tolerance, tangentPoint)

\* the whole call: the adapter after it, how it ended and what it returned
rotatedUVW(me, tangentPoint) ==
    With(Prologue(me, tangentPoint), LAMBDA p :
    With([me |-> p.me, outcome |-> p.stage, returned |-> << >>,
          maxDeviation |-> Zero, tolerance |-> p.tolerance, exit |-> "none",
          advances |-> 0, iterations |-> 0, commits |-> 0], LAMBDA none :
        IF p.stage = "cached" THEN [none EXCEPT !.returned = me.itsRotatedUVW]
        ELSE IF p.stage # "policy" THEN none
        ELSE With(Policy(p.me, p.originalUVW, p.tolerance, tangentPoint), LAMBDA u :
            IF u.exit = "hang"
            THEN [none EXCEPT !.me = u.me, !.outcome = "hang", !.exit = "hang",
                              !.advances = u.advances, !.iterations = u.iterations,
                              !.commits = u.commits]
            ELSE With(Epilogue(u.me, p.originalUVW, u.result, p.tolerance), LAMBDA e :
                [me |-> e.me, outcome |-> e.outcome, returned |-> e.returned,
                 maxDeviation |-> u.result, tolerance |-> p.tolerance,
                 exit |-> u.exit, advances |-> u.advances,
                 iterations |-> u.iterations, commits |-> u.commits]))))

(**************************** construction **********************************)
\* a constructor that leaves the coefficients at another value than 0
ConstructUnset(tolerance, checkResidual) ==
    [itsCheckResidual |-> checkResidual, itsWTolerance |-> tolerance,
     itsCoeffA |-> FromInt(1), itsCoeffB |-> Zero,
     itsUVWChangeMonitor |-> 0, itsPlaneChangeMonitor |-> 0,
     itsRotatedUVW |-> << >>, itsLastTangentPoint |-> DefaultDirection,
     itsPredictWPlane |-> FALSE, itsPredictTimeInterval |-> 1]

\* the constructor (lines 60-65); itsUVWChangeMonitor is the base monitor as it
\* is then, before the adapter is associated with an accessor
Construct(tolerance, checkResidual) ==
    [itsCheckResidual |-> checkResidual, itsWTolerance |-> tolerance,
     itsCoeffA |-> Zero, itsCoeffB |-> Zero,
     itsUVWChangeMonitor |-> 0, itsPlaneChangeMonitor |-> 0,
     itsRotatedUVW |-> << >>, itsLastTangentPoint |-> DefaultDirection,
     itsPredictWPlane |-> FALSE, itsPredictTimeInterval |-> 1]

\* the choice of the policy and of its time step
Configure(me, predict, interval) ==
    [me EXCEPT !.itsPredictWPlane = predict, !.itsPredictTimeInterval = interval]

\* an assignment that copies the monitors of the other adapter with the rest
AssignedWithMonitors(me, other) == other

\* operator= (lines 79-94), other being another adapter
Assigned(me, other) ==
    [me EXCEPT !.itsCheckResidual = other.itsCheckResidual,
               !.itsWTolerance = other.itsWTolerance,
               !.itsCoeffA = other.itsCoeffA,
               !.itsCoeffB = other.itsCoeffB,
               !.itsUVWChangeMonitor = notifyOfChanges(me.itsUVWChangeMonitor),
               !.itsPlaneChangeMonitor = notifyOfChanges(me.itsPlaneChangeMonitor),
               !.itsRotatedUVW = other.itsRotatedUVW,
               !.itsLastTangentPoint = other.itsLastTangentPoint,
               !.itsPredictWPlane = other.itsPredictWPlane,
               !.itsPredictTimeInterval = other.itsPredictTimeInterval]

(************************** the state machine *******************************)
\* no parameter name is in hand and no table accessor is in use
NoName ==
    [name |-> << >>, op |-> "none", made |-> FALSE, ant |-> 0, beam |-> 0,
     pol |-> "none", isBP |-> FALSE, packed |-> FALSE, base |-> << >>, chan |-> 0,
     outcome |-> "none", result |-> << >>]

NoTable ==
    [mainTableWritable |-> FALSE, itsVisNeedsFlush |-> FALSE,
     itsFlagNeedsFlush |-> FALSE, visibility |-> 0, flag |-> 0,
     tableVisibility |-> 0, tableFlag |-> 0, visWrites |-> 0, flagWrites |-> 0,
     refused |-> 0, visOpened |-> FALSE, flagOpened |-> FALSE,
     op |-> "none", outcome |-> "none"]

NoIndex ==
    [a |-> [itsAntenna |-> 0, itsBeam |-> 0], b |-> [itsAntenna |-> 0, itsBeam |-> 0],
     c |-> [itsAntenna |-> 0, itsBeam |-> 0], op |-> "none",
     equal |-> << >>, differ |-> << >>, less |-> << >>]

Record(op, who, tangentPoint, r, pre) ==
    [op |-> op, who |-> who, tangentPoint |-> tangentPoint,
     outcome |-> r.outcome, returned |-> r.returned,
     maxDeviation |-> r.maxDeviation, tolerance |-> r.tolerance, exit |-> r.exit,
     advances |-> r.advances, iterations |-> r.iterations, commits |-> r.commits,
     pre |-> [itsCoeffA |-> pre.itsCoeffA, itsCoeffB |-> pre.itsCoeffB,
              itsPlaneChangeMonitor |-> pre.itsPlaneChangeMonitor]]

Plain(outcome) ==
    [outcome |-> outcome, returned |-> << >>, maxDeviation |-> Zero,
     tolerance |-> Zero, exit |-> "none", advances |-> 0, iterations |-> 0,
     commits |-> 0]

Tolerances == {1, 2}
Intervals == {1, 2}
Callers == {1}
DriftSources == {"fastdrift"}

\* the adapters are constructed, configured and associated with the accessor
\* (the association notifies the base monitor once)
Init ==
    /\ source \in Sources \ DriftSources
    /\ frequency \in FreqLists
    /\ chunk = 0
    /\ changeMonitor = notifyOfChanges(0)
    /\ \E t \in Tolerances, c1 \in BOOLEAN, p1 \in BOOLEAN :
          inst = [i \in Instances |->
                     IF i = 1 THEN Configure(Construct(t, c1), p1, 1)
                     ELSE Configure(Construct(1, ~c1), ~p1, 1)]
    /\ frame = IdleFrame
    /\ last = [op |-> "none", who |-> 1, tangentPoint |-> 0,
               outcome |-> "none", returned |-> << >>, maxDeviation |-> Zero,
               tolerance |-> Zero, exit |-> "none", advances |-> 0,
               iterations |-> 0, commits |-> 0,
               pre |-> [itsCoeffA |-> Zero, itsCoeffB |-> Zero,
                        itsPlaneChangeMonitor |-> 0]]
    /\ names = NoName
    /\ table = NoTable
    /\ index = NoIndex

\* a call that never returned leaves nothing to be done
Running == last.outcome # "hang" /\ frame.pc = "idle"

\* a call of rotatedUVW(tangentPoint) on adapter i
CallRotatedUVW(i, tangentPoint) ==
    /\ Running
    /\ inst[i].itsPlaneChangeMonitor <= MaxPlaneEpoch
    /\ \E r \in {rotatedUVW(inst[i], tangentPoint)} :
          /\ inst' = [inst EXCEPT ![i] = r.me]
          /\ last' = Record("rotatedUVW", i, tangentPoint, r, inst[i])
    /\ UNCHANGED <<changeMonitor, chunk, frequency, source, frame, names, table, index>>

\* the iterator moves to the next chunk and the adapters are notified
NextChunk ==
    /\ Running
    /\ chunk < MaxChunk
    /\ chunk' = chunk + 1
    /\ changeMonitor' = notifyOfChanges(changeMonitor)
    /\ last' = Record("nextChunk", 1, 0, Plain("none"), Construct(1, FALSE))
    /\ UNCHANGED <<inst, frequency, source, frame, names, table, index>>

\* a = b for two different adapters
Assign(a, b) ==
    /\ Running
    /\ a # b
    /\ inst[a].itsUVWChangeMonitor < (IF a \in Callers THEN MaxAssign ELSE 1)
    /\ inst' = [inst EXCEPT ![a] = Assigned(inst[a], inst[b])]
    /\ last' = Record("assign", a, 0, Plain("none"), inst[a])
    /\ UNCHANGED <<changeMonitor, chunk, frequency, source, frame, names, table, index>>

\* a = a
SelfAssign(a) ==
    /\ Running
    /\ last.op # "selfAssign"
    /\ last' = Record("selfAssign", a, 0, Plain("none"), Construct(1, FALSE))
    /\ UNCHANGED <<inst, changeMonitor, chunk, frequency, source, frame, names, table, index>>

Next ==
    \/ \E i \in Callers, tangentPoint \in TangentPoints : CallRotatedUVW(i, tangentPoint)
    \/ NextChunk
    \/ \E a \in Instances, b \in Instances : Assign(a, b)
    \/ \E a \in Instances : SelfAssign(a)

Spec == Init /\ [][Next]_vars


(***************************************************************************)
(* The Predictive policy statement by statement: a call on adapter 1 runs  *)
(* the time-advance loop and the roll-back loop one pass at a time.        *)
(***************************************************************************)
InitSteps ==
    /\ source \in Sources
    /\ frequency \in FreqLists \ { << >> }
    /\ chunk = 0
    /\ changeMonitor = notifyOfChanges(0)
    /\ \E t \in Tolerances, c1 \in BOOLEAN, dt \in Intervals :
          inst = [i \in Instances |-> Configure(Construct(t, c1), TRUE, dt)]
    /\ frame = IdleFrame
    /\ last = [op |-> "none", who |-> 1, tangentPoint |-> 0,
               outcome |-> "none", returned |-> << >>, maxDeviation |-> Zero,
               tolerance |-> Zero, exit |-> "none", advances |-> 0,
               iterations |-> 0, commits |-> 0,
               pre |-> [itsCoeffA |-> Zero, itsCoeffB |-> Zero,
                        itsPlaneChangeMonitor |-> 0]]
    /\ names = NoName
    /\ table = NoTable
    /\ index = NoIndex

\* lines 105-138 and 198-284: the call is entered
StepEnter(tangentPoint) ==
    /\ frame.pc = "idle"
    /\ inst[1].itsPlaneChangeMonitor <= MaxPlaneEpoch
    /\ LET p == Prologue(inst[1], tangentPoint)
       IN  /\ p.stage = "policy"
           /\ inst' = [inst EXCEPT ![1] = p.me]
           /\ frame' = PredictEnter(p.me, 1, p.tolerance, tangentPoint, p.originalUVW)
           /\ last' = Record("enter", 1, tangentPoint, Plain("none"), inst[1])
    /\ UNCHANGED <<changeMonitor, chunk, frequency, source, names, table, index>>

\* lines 286-306: the test of the while loop and one pass
StepAdvance ==
    /\ frame.pc = "advance"
    /\ frame' = PredictAdvance(frame)
    /\ UNCHANGED <<inst, changeMonitor, chunk, frequency, source, last, names, table, index>>

\* lines 310-349: one pass of the do-while loop
StepRollback ==
    /\ frame.pc = "rollback"
    /\ LET r == PredictRollback(frame, inst[frame.who])
       IN  /\ frame' = r.frame
           /\ inst' = [inst EXCEPT ![frame.who] = r.me]
    /\ UNCHANGED <<changeMonitor, chunk, frequency, source, last, names, table, index>>

\* lines 148-163: the policy has returned; the residual check and the buffer
StepReturn ==
    /\ frame.pc = "return"
    /\ LET e == Epilogue(inst[frame.who], frame.originalUVW, frame.result, frame.tolerance)
       IN  /\ inst' = [inst EXCEPT ![frame.who] = e.me]
           /\ last' = [last EXCEPT !.op = "rotatedUVW", !.outcome = e.outcome,
                                   !.returned = e.returned,
                                   !.maxDeviation = frame.result,
                                   !.tolerance = frame.tolerance,
                                   !.exit = frame.exit,
                                   !.advances = frame.advances,
                                   !.iterations = frame.iterations,
                                   !.commits = frame.commits]
    /\ frame' = IdleFrame
    /\ UNCHANGED <<changeMonitor, chunk, frequency, source, names, table, index>>

StepNextChunk ==
    /\ frame.pc = "idle"
    /\ chunk < MaxChunk
    /\ chunk' = chunk + 1
    /\ changeMonitor' = notifyOfChanges(changeMonitor)
    /\ last' = Record("nextChunk", 1, 0, Plain("none"), Construct(1, FALSE))
    /\ UNCHANGED <<inst, frequency, source, frame, names, table, index>>

NextSteps ==
    \/ \E tangentPoint \in TangentPoints : StepEnter(tangentPoint)
    \/ StepAdvance
    \/ StepRollback
    \/ StepReturn
    \/ StepNextChunk

\* weak fairness of the do-while pass, written out: a pass always moves
\* newTangentPoint, so the pass is enabled exactly when pc = "rollback"
RollbackProceeds ==
    []<>(frame.pc # "rollback") \/ []<><<StepRollback>>_vars

\* a call that has been entered executes its next statement
SpecSteps ==
    /\ InitSteps
    /\ [][NextSteps]_vars
    /\ WF_vars(StepAdvance)
    /\ RollbackProceeds
    /\ WF_vars(StepReturn)

(***************************************************************************)
(* A Reactive adapter (1) and a Predictive adapter (2) with the same       *)
(* tolerance iterate the same linearly drifting source chunk by chunk.     *)
(* The tangent point is 2 seconds behind, so chunk c is at position c + 2; *)
(* the search looks at most 2 positions ahead of the chunk it is called at *)
(* and rolls back at most 2 positions behind it, so the positions visited  *)
(* stay within 0..NumPositions-1 and w is linear in time over all of them. *)
(***************************************************************************)
DriftChunks == 4        \* the duration: chunks 0..DriftChunks

\* the tangent point of the run
DriftTangentPoint == shiftLongitude(0, -2)

InitDrift ==
    /\ source \in {"drift", "fastdrift"}
    /\ frequency \in FreqLists \ { << >> }
    /\ chunk = 0
    /\ changeMonitor = notifyOfChanges(0)
    /\ \E t \in Tolerances, c \in BOOLEAN, dt \in Intervals :
          inst = [i \in Instances |->
                     IF i = 1 THEN Construct(t, c)
                     ELSE Configure(Construct(t, c), TRUE, dt)]
    /\ frame = IdleFrame
    /\ last = [op |-> "none", who |-> 1, tangentPoint |-> 0,
               outcome |-> "none", returned |-> << >>, maxDeviation |-> Zero,
               tolerance |-> Zero, exit |-> "none", advances |-> 0,
               iterations |-> 0, commits |-> 0,
               pre |-> [itsCoeffA |-> Zero, itsCoeffB |-> Zero,
                        itsPlaneChangeMonitor |-> 0]]
    /\ names = NoName
    /\ table = NoTable
    /\ index = NoIndex

\* both adapters are asked for the uvw's of the chunk
ProcessChunk(tangentPoint) ==
    /\ last.op # "processChunk"
    /\ \E reactive \in {rotatedUVW(inst[1], tangentPoint)},
          predictive \in {rotatedUVW(inst[2], tangentPoint)} :
          /\ predictive.outcome # "hang"
          /\ inst' = [i \in Instances |-> IF i = 1 THEN reactive.me ELSE predictive.me]
          /\ last' = Record("processChunk", 2, tangentPoint, predictive, inst[2])
    /\ UNCHANGED <<changeMonitor, chunk, frequency, source, frame, names, table, index>>

DriftNextChunk ==
    /\ last.op = "processChunk"
    /\ chunk < DriftChunks
    /\ chunk' = chunk + 1
    /\ changeMonitor' = notifyOfChanges(changeMonitor)
    /\ last' = Record("nextChunk", 1, 0, Plain("none"), Construct(1, FALSE))
    /\ UNCHANGED <<inst, frequency, source, frame, names, table, index>>

NextDrift ==
    \/ ProcessChunk(DriftTangentPoint)
    \/ DriftNextChunk

SpecDrift == InitDrift /\ [][NextDrift]_vars

(***************************************************************************)
(* The adapters on an array of one baseline ("lone") and on one of two     *)
(* colinear baselines ("pair") whose coordinates do not square exactly:    *)
(* the arithmetic of the calls rounds.                                     *)
(***************************************************************************)
InitDouble ==
    /\ source \in RoundingSources
    /\ frequency \in FreqLists
    /\ chunk = 0
    /\ changeMonitor = notifyOfChanges(0)
    /\ \E t \in Tolerances, c1 \in BOOLEAN, p1 \in BOOLEAN, dt \in Intervals :
          inst = [i \in Instances |->
                     IF i = 1 THEN Configure(Construct(t, c1), p1, dt)
                     ELSE Configure(Construct(1, ~c1), ~p1, 1)]
    /\ frame = IdleFrame
    /\ last = [op |-> "none", who |-> 1, tangentPoint |-> 0,
               outcome |-> "none", returned |-> << >>, maxDeviation |-> Zero,
               tolerance |-> Zero, exit |-> "none", advances |-> 0,
               iterations |-> 0, commits |-> 0,
               pre |-> [itsCoeffA |-> Zero, itsCoeffB |-> Zero,
                        itsPlaneChangeMonitor |-> 0]]
    /\ names = NoName
    /\ table = NoTable
    /\ index = NoIndex

SpecDouble == InitDouble /\ [][Next]_vars

(***************************************************************************)
(* The adapters on an array that lies exactly on a plane.                  *)
(***************************************************************************)
InitFit ==
    /\ source \in PlanarSources
    /\ frequency \in FreqLists \ { << >> }
    /\ chunk = 0
    /\ changeMonitor = notifyOfChanges(0)
    /\ \E t \in Tolerances, c1 \in BOOLEAN, p1 \in BOOLEAN :
          inst = [i \in Instances |->
                     IF i = 1 THEN Configure(Construct(t, c1), p1, 1)
                     ELSE Configure(Construct(1, ~c1), ~p1, 1)]
    /\ frame = IdleFrame
    /\ last = [op |-> "none", who |-> 1, tangentPoint |-> 0,
               outcome |-> "none", returned |-> << >>, maxDeviation |-> Zero,
               tolerance |-> Zero, exit |-> "none", advances |-> 0,
               iterations |-> 0, commits |-> 0,
               pre |-> [itsCoeffA |-> Zero, itsCoeffB |-> Zero,
                        itsPlaneChangeMonitor |-> 0]]
    /\ names = NoName
    /\ table = NoTable
    /\ index = NoIndex

SpecFit == InitFit /\ [][Next]_vars

(***************************************************************************)
(* The adapters on an array with a long and a short baseline along u whose *)
(* w's are of opposite sign: the least-squares plane follows the long one. *)
(***************************************************************************)

InitLever ==
    /\ source \in {"lever"}
    /\ frequency \in FreqLists
    /\ chunk = 0
    /\ changeMonitor = notifyOfChanges(0)
    /\ \E t \in Tolerances, c1 \in BOOLEAN, p1 \in BOOLEAN :
          inst = [i \in Instances |->
                     IF i = 1 THEN Configure(Construct(t, c1), p1, 1)
                     ELSE Configure(Construct(1, ~c1), ~p1, 1)]
    /\ frame = IdleFrame
    /\ last = [op |-> "none", who |-> 1, tangentPoint |-> 0,
               outcome |-> "none", returned |-> << >>, maxDeviation |-> Zero,
               tolerance |-> Zero, exit |-> "none", advances |-> 0,
               iterations |-> 0, commits |-> 0,
               pre |-> [itsCoeffA |-> Zero, itsCoeffB |-> Zero,
                        itsPlaneChangeMonitor |-> 0]]
    /\ names = NoName
    /\ table = NoTable
    /\ index = NoIndex

SpecLever == InitLever /\ [][Next]_vars

(***************************************************************************)
(* CalParamNameHelper (askap/calibaccess/CalParamNameHelper.cc): the names *)
(* of calibration parameters.  A std::string is the sequence of its        *)
(* characters; positions count from 0 as in the code.                      *)
(***************************************************************************)
MaxAntenna == 35        \* antenna indices 0..MaxAntenna are named
MaxBeam == 29           \* beam indices 0..MaxBeam are named
MaxChannel == 15        \* the largest channel number packed into a name
MaxFields == 4          \* fields of a name that was not made by paramName

npos == -1              \* std::string::npos
ShortMax == 32767       \* the largest casacore::Short
uIntMax == 2147483647    \* casacore::uInt up to the largest integer of the model

Digits == <<"0", "1", "2", "3", "4", "5", "6", "7", "8", "9">>
IsDigit(c) == \E d \in 1..10 : Digits[d] = c
DigitValue(c) == (CHOOSE d \in 1..10 : Digits[d] = c) - 1

\* name.find(".", start)
find(name, c, start) ==
    LET hits == {p \in start..(Len(name) - 1) : name[p + 1] = c}
    IN  IF hits = {} THEN npos ELSE CHOOSE p \in hits : \A q \in hits : p <= q

\* name.rfind(".")
rfind(name, c) ==
    LET hits == {p \in 0..(Len(name) - 1) : name[p + 1] = c}
    IN  IF hits = {} THEN npos ELSE CHOOSE p \in hits : \A q \in hits : q <= p

\* name.substr(pos, n) and name.substr(pos)
substr(name, pos, n) ==
    SubSeq(name, pos + 1, IF pos + n > Len(name) THEN Len(name) ELSE pos + n)
substrFrom(name, pos) == SubSeq(name, pos + 1, Len(name))

\* utility::toString of an integer: operator<< into a stream
RECURSIVE toString(_)
toString(n) ==
    IF n < 0 THEN <<"-">> \o toString(-n)
    ELSE IF n < 10 THEN <<Digits[n + 1]>>
    ELSE toString(n \div 10) \o <<Digits[(n % 10) + 1]>>

\* the number of digits a string starts with
RECURSIVE LeadingDigits(_)
LeadingDigits(str) ==
    IF str = << >> \/ ~IsDigit(Head(str)) THEN 0 ELSE 1 + LeadingDigits(Tail(str))

\* the value of a string of digits
RECURSIVE ValueOf(_)
ValueOf(str) ==
    IF str = << >> THEN 0
    ELSE 10 * ValueOf(SubSeq(str, 1, Len(str) - 1)) + DigitValue(str[Len(str)])

\* utility::fromString of an integer type with the largest value max: operator>>
\* out of a stream takes the digits the string starts with and leaves the rest
\* unread; the conversion fails if there is no digit or the value does not fit
fromString(str, max) ==
    LET k == LeadingDigits(str)
        value == ValueOf(SubSeq(str, 1, k))
    IN  IF k = 0 \/ value > max THEN [ok |-> FALSE, value |-> 0]
        ELSE [ok |-> TRUE, value |-> value]

bpPrefix == <<"b", "p", ".">>
gainText == <<"g", "a", "i", "n">>
leakageText == <<"l", "e", "a", "k", "a", "g", "e">>
g11 == <<"g", "1", "1">>
g22 == <<"g", "2", "2">>
d12 == <<"d", "1", "2">>
d21 == <<"d", "2", "1">>

Stokes == {"XX", "XY", "YX", "YY", "I"}

\* name.find(bpPrefix()) == 0 (lines 111-114)
bpParam(name) ==
    Len(name) >= Len(bpPrefix) /\ SubSeq(name, 1, Len(bpPrefix)) = bpPrefix

\* paramName with the beam written before the antenna
paramNameSwapped(ant, beam, par, isBP) ==
    LET res == IF par \in {"XX", "YY"}
               THEN gainText \o <<".">> \o (IF par = "XX" THEN g11 ELSE g22) \o <<".">>
               ELSE leakageText \o <<".">> \o (IF par = "XY" THEN d12 ELSE d21) \o <<".">>
    IN  IF par \notin {"XX", "YY", "XY", "YX"}
        THEN [outcome |-> "AskapError", name |-> << >>]
        ELSE [outcome |-> "ok",
              name |-> (IF isBP THEN bpPrefix \o res ELSE res)
                           \o toString(beam) \o <<".">> \o toString(ant)]

\* lines 48-63
paramName(ant, beam, par, isBP) ==
    LET res == IF par \in {"XX", "YY"}
               THEN gainText \o <<".">> \o (IF par = "XX" THEN g11 ELSE g22) \o <<".">>
               ELSE leakageText \o <<".">> \o (IF par = "XY" THEN d12 ELSE d21) \o <<".">>
    IN  IF par \notin {"XX", "YY", "XY", "YX"}
        THEN [outcome |-> "AskapError", name |-> << >>]
        ELSE [outcome |-> "ok",
              name |-> (IF isBP THEN bpPrefix \o res ELSE res)
                           \o toString(ant) \o <<".">> \o toString(beam)]

Malformed == [outcome |-> "AskapError", result |-> << >>]

\* lines 99-104: the antenna and the beam
parseIndices(name, pos2, polDescriptor) ==
    With(find(name, ".", pos2 + 1), LAMBDA pos3 :
        IF ~(pos3 # npos /\ pos3 + 1 # Len(name) /\ pos2 + 1 # pos3) THEN Malformed
        ELSE With(fromString(substr(name, pos2 + 1, pos3 - pos2 - 1), ShortMax), LAMBDA ant :
             With(fromString(substrFrom(name, pos3 + 1), ShortMax), LAMBDA beam :
                IF ~ant.ok \/ ~beam.ok THEN Malformed
                ELSE [outcome |-> "ok",
                      result |-> <<ant.value, beam.value, polDescriptor>>])))

\* lines 85-98: the polarisation product
parsePol(name, pos, what) ==
    With(find(name, ".", pos + 1), LAMBDA pos2 :
        IF ~(pos2 # npos /\ pos2 + 1 # Len(name) /\ pos + 1 # pos2) THEN Malformed
        ELSE With(substr(name, pos + 1, pos2 - pos - 1), LAMBDA pol :
            IF what = gainText
            THEN IF ~(pol = g11 \/ pol = g22) THEN Malformed
                 ELSE parseIndices(name, pos2, IF pol = g11 THEN "XX" ELSE "YY")
            ELSE IF ~(pol = d12 \/ pol = d21) THEN Malformed
                 ELSE parseIndices(name, pos2, IF pol = d12 THEN "XY" ELSE "YX")))

\* lines 73-105
parseParam(name) ==
    With(IF bpParam(name) THEN Len(bpPrefix) ELSE 0, LAMBDA startPos :
    With(find(name, ".", startPos), LAMBDA pos :
        IF ~(pos # npos /\ pos + 1 # Len(name)) THEN Malformed
        ELSE With(substr(name, startPos, pos - startPos), LAMBDA what :
            IF ~(what = gainText \/ what = leakageText) THEN Malformed
            ELSE parsePol(name, pos, what))))

\* lines 122-125
addChannelInfo(name, chan) == name \o <<".">> \o toString(chan)

\* the name split at its first dot
extractChannelInfoFirstDot(name) ==
    With(find(name, ".", 0), LAMBDA pos :
        IF pos = npos \/ pos + 1 = Len(name) THEN Malformed
        ELSE With(fromString(substrFrom(name, pos + 1), uIntMax), LAMBDA chan :
            IF ~chan.ok THEN Malformed
            ELSE [outcome |-> "ok", result |-> <<chan.value, substr(name, 0, pos)>>]))

\* lines 132-138
extractChannelInfo(name) ==
    With(rfind(name, "."), LAMBDA pos :
        IF pos = npos THEN Malformed
        ELSE IF ~(pos + 1 # Len(name)) THEN Malformed
        ELSE With(fromString(substrFrom(name, pos + 1), uIntMax), LAMBDA chan :
            IF ~chan.ok THEN Malformed
            ELSE [outcome |-> "ok", result |-> <<chan.value, substr(name, 0, pos)>>]))

(***************************************************************************)
(* The helper applied to the names paramName makes and to names put        *)
(* together from fields that make up well-formed and malformed names.      *)
(***************************************************************************)
Fields ==
    {<< >>, gainText, leakageText, g11, d21, <<"3">>, <<"x", "x">>}

RECURSIVE Joined(_)
Joined(fields) ==
    IF Len(fields) = 1 THEN fields[1]
    ELSE Joined(SubSeq(fields, 1, Len(fields) - 1)) \o <<".">> \o fields[Len(fields)]

GivenNames ==
    LET plain == {Joined(f) : f \in UNION {[1..k -> Fields] : k \in 1..MaxFields}}
    IN  plain \cup {bpPrefix \o n : n \in plain}

\* the adapters are not in use
NoCall ==
    [op |-> "none", who |-> 1, tangentPoint |-> 0,
     outcome |-> "none", returned |-> << >>, maxDeviation |-> Zero,
     tolerance |-> Zero, exit |-> "none", advances |-> 0,
     iterations |-> 0, commits |-> 0,
     pre |-> [itsCoeffA |-> Zero, itsCoeffB |-> Zero,
              itsPlaneChangeMonitor |-> 0]]

NoAdapters ==
    /\ source = "empty"
    /\ frequency = << >>
    /\ chunk = 0
    /\ changeMonitor = 0
    /\ inst = [i \in Instances |-> Construct(1, FALSE)]
    /\ frame = IdleFrame
    /\ last = NoCall

adapterVars == <<inst, changeMonitor, chunk, frequency, source, frame, last>>

InitNames ==
    /\ NoAdapters
    /\ table = NoTable
    /\ index = NoIndex
    /\ names \in {NoName} \cup {[NoName EXCEPT !.name = n, !.op = "given", !.outcome = "ok"] :
                                   n \in GivenNames}

\* a name is in hand and has not been examined yet
NameInHand ==
    names.op \in {"given", "paramName", "addChannelInfo"} /\ names.outcome = "ok"

\* name = paramName(JonesIndex(ant, beam), par, isBP)
CallParamName ==
    /\ names.op = "none"
    /\ \E ant \in 0..MaxAntenna, beam \in 0..MaxBeam, par \in Stokes, isBP \in BOOLEAN :
          \E r \in {paramName(ant, beam, par, isBP)} :
              names' = [NoName EXCEPT !.name = r.name, !.op = "paramName",
                                      !.made = (r.outcome = "ok"),
                                      !.ant = ant, !.beam = beam, !.pol = par,
                                      !.isBP = isBP, !.outcome = r.outcome]
    /\ UNCHANGED <<adapterVars, table, index>>

\* parseParam(name)
CallParseParam ==
    /\ NameInHand
    /\ \E r \in {parseParam(names.name)} :
          names' = [names EXCEPT !.op = "parseParam", !.outcome = r.outcome,
                                 !.result = r.result]
    /\ UNCHANGED <<adapterVars, table, index>>

\* bpParam(name)
CallBpParam ==
    /\ NameInHand
    /\ names' = [names EXCEPT !.op = "bpParam", !.result = <<bpParam(names.name)>>]
    /\ UNCHANGED <<adapterVars, table, index>>

\* name = addChannelInfo(name, chan)
CallAddChannelInfo(chan) ==
    /\ NameInHand
    /\ ~names.packed
    /\ names' = [names EXCEPT !.op = "addChannelInfo", !.packed = TRUE,
                              !.base = names.name, !.chan = chan,
                              !.name = addChannelInfo(names.name, chan)]
    /\ UNCHANGED <<adapterVars, table, index>>

\* extractChannelInfo(name)
CallExtractChannelInfo ==
    /\ NameInHand
    /\ \E r \in {extractChannelInfo(names.name)} :
          names' = [names EXCEPT !.op = "extractChannelInfo", !.outcome = r.outcome,
                                 !.result = r.result]
    /\ UNCHANGED <<adapterVars, table, index>>

NextNames ==
    \/ CallParamName
    \/ CallParseParam
    \/ CallBpParam
    \/ \E chan \in {0, MaxChannel} : CallAddChannelInfo(chan)
    \/ CallExtractChannelInfo

SpecNames == InitNames /\ [][NextNames]_vars

(***************************************************************************)
(* TableDataAccessor (askap/dataaccess/TableDataAccessor.cc): read-write   *)
(* access to the visibilities and flags of the chunk its iterator is at.   *)
(* visibility and flag are the cubes of the accessor (one value stands for *)
(* a cube), tableVisibility and tableFlag what the table holds; visWrites  *)
(* and flagWrites count the calls of writeOriginalVis / writeOriginalFlag  *)
(* of the iterator, refused the calls that threw; visOpened and flagOpened  *)
(* tell whether rwVisibility / rwFlag has returned its cube to the caller  *)
(* since the last sync.                                                    *)
(***************************************************************************)
MaxWrites == 2          \* write-backs of one kind, and refused calls, that are counted

CubeValues == {0, 1}

\* a check that lets every write through
RefusedNever(t) == FALSE

\* !itsIterator.mainTableWritable() (lines 67, 95)
Refused(t) == ~t.mainTableWritable

Count(n) == IF n < MaxWrites THEN n + 1 ELSE n

\* lines 65-80; the caller assigns v through the reference it gets
rwVisibility(t, v) ==
    IF Refused(t)
    THEN [t EXCEPT !.op = "rwVisibility", !.outcome = "DataAccessLogicError",
                   !.refused = Count(t.refused)]
    ELSE [t EXCEPT !.itsVisNeedsFlush = TRUE, !.visibility = v,
                   !.op = "rwVisibility", !.outcome = "ok"]

\* lines 93-109; the caller assigns f through the reference it gets
rwFlag(t, f) ==
    IF Refused(t)
    THEN [t EXCEPT !.op = "rwFlag", !.outcome = "DataAccessLogicError",
                   !.refused = Count(t.refused)]
    ELSE [t EXCEPT !.itsFlagNeedsFlush = TRUE, !.flag = f,
                   !.op = "rwFlag", !.outcome = "ok"]

\* TableDataIterator::writeOriginalVis and writeOriginalFlag
writeOriginalVis(t) ==
    [t EXCEPT !.tableVisibility = t.visibility, !.visWrites = Count(t.visWrites)]
writeOriginalFlag(t) ==
    [t EXCEPT !.tableFlag = t.flag, !.flagWrites = Count(t.flagWrites)]

\* a sync that leaves the mark of the flags set
syncKeepsFlagMark(t) ==
    With(IF t.itsVisNeedsFlush
         THEN writeOriginalVis([t EXCEPT !.itsVisNeedsFlush = FALSE]) ELSE t, LAMBDA t1 :
    With(IF t1.itsFlagNeedsFlush THEN writeOriginalFlag(t1) ELSE t1, LAMBDA t2 :
        [t2 EXCEPT !.op = "sync", !.outcome = "ok"]))

\* lines 113-124
sync(t) ==
    With(IF t.itsVisNeedsFlush
         THEN writeOriginalVis([t EXCEPT !.itsVisNeedsFlush = FALSE]) ELSE t, LAMBDA t1 :
    With(IF t1.itsFlagNeedsFlush
         THEN writeOriginalFlag([t1 EXCEPT !.itsFlagNeedsFlush = FALSE]) ELSE t1, LAMBDA t2 :
        [t2 EXCEPT !.op = "sync", !.outcome = "ok"]))

\* the constructor (lines 43-46) on an iterator of a table opened for reading
\* only or for writing; the cubes are read from the table
InitTable ==
    /\ NoAdapters
    /\ names = NoName
    /\ index = NoIndex
    /\ \E w \in BOOLEAN, v \in CubeValues, f \in CubeValues :
          table = [NoTable EXCEPT !.mainTableWritable = w,
                                  !.visibility = v, !.tableVisibility = v,
                                  !.flag = f, !.tableFlag = f]

CallRwVisibility(v) ==
    /\ \E t \in {rwVisibility(table, v)} :
          table' = [t EXCEPT !.visOpened = t.visOpened \/ t.outcome = "ok"]
    /\ UNCHANGED <<adapterVars, names, index>>

CallRwFlag(f) ==
    /\ \E t \in {rwFlag(table, f)} :
          table' = [t EXCEPT !.flagOpened = t.flagOpened \/ t.outcome = "ok"]
    /\ UNCHANGED <<adapterVars, names, index>>

CallSync ==
    /\ table' = [sync(table) EXCEPT !.visOpened = FALSE, !.flagOpened = FALSE]
    /\ UNCHANGED <<adapterVars, names, index>>

NextTable ==
    \/ \E v \in CubeValues : CallRwVisibility(v)
    \/ \E f \in CubeValues : CallRwFlag(f)
    \/ CallSync

SpecTable == InitTable /\ [][NextTable]_vars

(***************************************************************************)
(* JonesIndex (askap/calibaccess/JonesIndex.cc): an antenna and a beam,    *)
(* both casacore::Short, with equality and an order.  Three indices a, b   *)
(* and c are held; a comparison applies the operators to each ordered pair *)
(* of them: equal[<<x, y>>] is x == y, differ[<<x, y>>] is x != y and      *)
(* less[<<x, y>>] is x < y.                                                *)
(***************************************************************************)
MaxIndex == 1           \* antennas and beams -1..MaxIndex are compared

\* the constructor from two casacore::Short (lines 40-44)
JonesIndex(antenna, beam) == [itsAntenna |-> antenna, itsBeam |-> beam]

\* operator== (lines 59-67); antenna() and beam() return itsAntenna and itsBeam
operatorEq(this, rhs) ==
    IF rhs.itsAntenna = this.itsAntenna /\ rhs.itsBeam = this.itsBeam THEN TRUE ELSE FALSE

\* operator!= (lines 69-72)
operatorNe(this, rhs) == ~operatorEq(this, rhs)

\* an order that looks at the beam before the antenna
operatorLessBeamFirst(this, rhs) ==
    IF operatorEq(this, rhs) THEN FALSE
    ELSE IF this.itsBeam < rhs.itsBeam THEN TRUE
    ELSE IF this.itsBeam > rhs.itsBeam THEN FALSE
    ELSE IF this.itsAntenna < rhs.itsAntenna THEN TRUE
    ELSE FALSE

\* operator< (lines 74-93)
operatorLess(this, rhs) ==
    IF operatorEq(this, rhs) THEN FALSE
    ELSE IF this.itsAntenna < rhs.itsAntenna THEN TRUE
    ELSE IF this.itsAntenna > rhs.itsAntenna THEN FALSE
    ELSE IF this.itsBeam < rhs.itsBeam THEN TRUE
    ELSE FALSE

Slots == {"a", "b", "c"}

InitIndex ==
    /\ NoAdapters
    /\ names = NoName
    /\ table = NoTable
    /\ \E a0 \in -1..MaxIndex, b0 \in -1..MaxIndex :
          index = [NoIndex EXCEPT !.a = JonesIndex(a0, b0), !.b = JonesIndex(a0, b0),
                                  !.c = JonesIndex(a0, b0)]

\* slot = JonesIndex(ant, bm)
ConstructIndex(slot) ==
    /\ \E ant \in -1..MaxIndex, bm \in -1..MaxIndex :
          index' = [index EXCEPT ![slot] = JonesIndex(ant, bm), !.op = "construct",
                                 !.equal = << >>, !.differ = << >>, !.less = << >>]
    /\ UNCHANGED <<adapterVars, names, table>>

\* x == y, x != y and x < y for x and y each of a, b, c
CompareIndices ==
    /\ index.op # "compare"
    /\ index' = [index EXCEPT
                    !.op = "compare",
                    !.equal = [pr \in Slots \X Slots |-> operatorEq(index[pr[1]], index[pr[2]])],
                    !.differ = [pr \in Slots \X Slots |-> operatorNe(index[pr[1]], index[pr[2]])],
                    !.less = [pr \in Slots \X Slots |-> operatorLess(index[pr[1]], index[pr[2]])]]
    /\ UNCHANGED <<adapterVars, names, table>>

NextIndex ==
    \/ \E slot \in Slots : ConstructIndex(slot)
    \/ CompareIndices

SpecIndex == InitIndex /\ [][NextIndex]_vars

(******************************* claims *************************************)
ReturnedNormally(l) == l.op = "rotatedUVW" /\ l.outcome \in {"ok", "cached"}

\* C1: two calls in a row with the same tangent point and no change of the
\* source between them return the same coordinates, and the second leaves the
\* plane monitor where the first left it
C1_Idempotent ==
    [][\A i \in Callers, tangentPoint \in TangentPoints :
          (/\ CallRotatedUVW(i, tangentPoint)
           /\ ReturnedNormally(last)
           /\ last.who = i
           /\ last.tangentPoint = tangentPoint)
          => /\ ReturnedNormally(last')
             /\ last'.returned = last.returned
             /\ inst'[i].itsPlaneChangeMonitor = inst[i].itsPlaneChangeMonitor]_vars

\* C2: what a call returns is, row by row, the row of the source at the
\* requested tangent point with the committed plane subtracted from w
C2_CacheConsistent ==
    ReturnedNormally(last) =>
        last.returned = Corrected(inst[last.who].itsCoeffA, inst[last.who].itsCoeffB,
                                  accRotatedUVW(last.tangentPoint))


\* the adapter the last operation was on, and the chunk as the last call saw it
Me == inst[last.who]
ChunkUVW == accRotatedUVW(last.tangentPoint)
ChunkTolerance == tolInMetres(Me.itsWTolerance, frequency)

\* the last operation was a call that went as far as its policy, which returned
PolicyReturned == last.op = "rotatedUVW" /\ last.exit \notin {"none", "hang"}

\* the plane (coefficients or monitor) is not what it was before the last call
PlaneChanged ==
    \/ Me.itsCoeffA # last.pre.itsCoeffA
    \/ Me.itsCoeffB # last.pre.itsCoeffB
    \/ Me.itsPlaneChangeMonitor # last.pre.itsPlaneChangeMonitor

\* the deviation of the chunk from the plane committed before the last call
DeviationBefore == maxWDeviation(last.pre.itsCoeffA, last.pre.itsCoeffB, ChunkUVW)

\* C3: with checkResidual on, a call that recomputes and returns leaves the
\* committed plane with a deviation, at the requested tangent point, strictly
\* below the tolerance in metres
C3_ResidualBelowTolerance ==
    (last.op = "rotatedUVW" /\ last.outcome = "ok" /\ Me.itsCheckResidual)
    => RLess(maxWDeviation(Me.itsCoeffA, Me.itsCoeffB, ChunkUVW), ChunkTolerance)

C3_Witness ==
    /\ last.op = "rotatedUVW" /\ last.outcome = "ok" /\ Me.itsCheckResidual
    /\ Me.itsPredictWPlane /\ last.commits >= 2 /\ last.advances >= 1

\* C4: once a call has served a tangent point, a call with a materially
\* different tangent point fails with the precondition error
C4_SingleTangentPoint ==
    [][\A i \in Callers, tangentPoint \in TangentPoints :
          (/\ CallRotatedUVW(i, tangentPoint)
           /\ ReturnedNormally(last)
           /\ last.who = i
           /\ ~compare(tangentPoint, last.tangentPoint))
          => last'.outcome = "TangentPointMismatch"]_vars

\* C5: under the Reactive policy a call changes the coefficients or the plane
\* monitor only if the chunk has at least 2 rows, the deviation from the plane
\* committed before is not below the tolerance, and |D| >= 1e-7 (D # 0 for the
\* integer D of the model); so a singular fit leaves the plane as it was
C5_ReactiveFrame ==
    (last.op = "rotatedUVW" /\ Me.itsPredictWPlane = FALSE /\ PlaneChanged)
    => /\ Len(ChunkUVW) >= 2
       /\ ~RLess(DeviationBefore, ChunkTolerance)
       /\ LSF(ChunkUVW).D # 0

C5_Witness ==
    /\ last.op = "rotatedUVW" /\ Me.itsPredictWPlane = FALSE
    /\ last.exit = "singular" /\ LSF(ChunkUVW).D = 0
    /\ Len(ChunkUVW) >= 2 /\ ~RLess(DeviationBefore, ChunkTolerance)
    /\ ~PlaneChanged

C7_PlaneChangeSignalled ==
    [][\A i \in Instances :
          (inst'[i].itsCoeffA # inst[i].itsCoeffA \/ inst'[i].itsCoeffB # inst[i].itsCoeffB)
          => inst'[i].itsPlaneChangeMonitor # inst[i].itsPlaneChangeMonitor]_vars

C7_Witness ==
    /\ last.op = "rotatedUVW" /\ last.commits >= 1
    /\ Me.itsCoeffA # last.pre.itsCoeffA
    /\ Me.itsPlaneChangeMonitor # last.pre.itsPlaneChangeMonitor

\* C8: from the same state, chunk and tolerance, a call whose policy returns a
\* deviation not below the tolerance fails with the tolerance error when
\* checkResidual is on, and with checkResidual off returns the chunk corrected
\* by the committed plane
C8_CheckResidualDecides ==
    \A i \in Callers, tangentPoint \in TangentPoints :
        LET on == rotatedUVW([inst[i] EXCEPT !.itsCheckResidual = TRUE], tangentPoint)
            off == rotatedUVW([inst[i] EXCEPT !.itsCheckResidual = FALSE], tangentPoint)
        IN  (off.exit \notin {"none", "hang"} /\ ~RLess(off.maxDeviation, off.tolerance))
            => /\ on.outcome = "ToleranceExceeded"
               /\ off.outcome = "ok"
               /\ off.returned = Corrected(off.me.itsCoeffA, off.me.itsCoeffB,
                                           accRotatedUVW(tangentPoint))

C8_Witness ==
    /\ last.op = "rotatedUVW" /\ last.outcome = "ToleranceExceeded"
    /\ last.commits >= 1 /\ Me.itsCheckResidual
    /\ ~RLess(last.maxDeviation, last.tolerance)


\* C9: every call under the Predictive policy terminates: a call that has been
\* entered returns
C9_PredictiveTerminates == (frame.pc # "idle") ~> (frame.pc = "idle")

\* C10: over the same duration of a linearly drifting source, the Predictive
\* adapter has committed strictly fewer planes than the Reactive one
C10_PredictiveCommitsLess ==
    (chunk = DriftChunks /\ last.op = "processChunk")
    => inst[2].itsPlaneChangeMonitor < inst[1].itsPlaneChangeMonitor

\* C11: on a linearly drifting source, after every call that committed a plane
\* (the plane monitor of the adapter advanced), under either policy, the
\* deviation of the committed plane from the chunk at the requested tangent
\* point is not above the tolerance in metres
C11_CommitWithinTolerance ==
    [][\A i \in Instances :
          inst'[i].itsPlaneChangeMonitor # inst[i].itsPlaneChangeMonitor
          => ~RLess(tolInMetres(inst'[i].itsWTolerance, frequency),
                    maxWDeviation(inst'[i].itsCoeffA, inst'[i].itsCoeffB,
                                  accRotatedUVW(DriftTangentPoint)))]_vars

\* the (u,v) of the chunk of the last call are colinear: |D| < 1e-7, which is
\* D = 0 for the integer D of the model
ColinearChunk == Len(ChunkUVW) >= 2 /\ LSF(ChunkUVW).D = 0

\* C12 as claimed: a call on a chunk with colinear (u,v), whatever the policy,
\* checkResidual and the coefficients before, raises no exception, leaves the
\* coefficients and reports the deviation of the plane committed before
C12_ColinearNoException ==
    (PolicyReturned /\ ColinearChunk)
    => /\ last.outcome = "ok"
       /\ ~PlaneChanged
       /\ last.maxDeviation = DeviationBefore

\* C12 as amended: a call on a chunk with colinear (u,v) leaves the
\* coefficients and the plane monitor, and its policy reports the deviation of
\* the plane committed before; the call returns if checkResidual is off or that
\* deviation is below the tolerance, and fails with the tolerance error otherwise
C12_ColinearLeavesPlane ==
    (PolicyReturned /\ ColinearChunk)
    => /\ ~PlaneChanged
       /\ last.commits = 0
       /\ last.maxDeviation = DeviationBefore
       /\ IF Me.itsCheckResidual /\ ~RLess(DeviationBefore, ChunkTolerance)
          THEN last.outcome = "ToleranceExceeded"
          ELSE last.outcome = "ok"

C12_Witness ==
    /\ PolicyReturned /\ ColinearChunk
    /\ Me.itsPredictWPlane /\ last.exit = "singular"
    /\ last.pre.itsCoeffB # Zero /\ last.outcome = "ok"

\* C13: a call on a chunk of 0 or 1 rows, under either policy, commits no fit
\* (coefficients and plane monitor as before) and its policy returns the
\* deviation of the chunk from the plane committed before
C13_FewRowsNoFit ==
    (PolicyReturned /\ Len(ChunkUVW) < 2)
    => /\ ~PlaneChanged
       /\ last.commits = 0
       /\ last.maxDeviation = DeviationBefore

\* C14: the tolerance in metres a call works with is the tolerance in
\* wavelengths times c over the largest of all the frequencies of the chunk,
\* whatever their order
C14_ToleranceFromMaxFrequency ==
    PolicyReturned
    => \E f \in {frequency[k] : k \in 1..Len(frequency)} :
          /\ \A k \in 1..Len(frequency) : frequency[k] <= f
          /\ last.tolerance = Rat(Me.itsWTolerance, f)

\* the last operation was a call that found a change of the source (it did not
\* take the branch of line 111)
Recomputed ==
    last.op = "rotatedUVW" /\ last.outcome \notin {"cached", "TangentPointMismatch"}

\* C15: a call that finds a change of the source and zero frequencies fails
\* with the error of the channels before its policy is entered (no deviation
\* is evaluated, no fit attempted), and the coefficients and the plane monitor
\* are after the call what they were before it; with at least one frequency
\* the call does not fail with that error
C15_ZeroChannelsFailFast ==
    Recomputed
    => IF Len(frequency) = 0
       THEN /\ last.outcome = "ZeroChannels"
            /\ last.exit = "none"
            /\ last.commits = 0
            /\ ~PlaneChanged
       ELSE last.outcome # "ZeroChannels"

C15_Witness ==
    /\ last.op = "rotatedUVW" /\ last.outcome = "ZeroChannels"
    /\ Len(frequency) = 0 /\ Len(ChunkUVW) >= 2
    /\ Me.itsPredictWPlane /\ Me.itsPlaneChangeMonitor > 0

\* the plane the chunk of the last call lies on
ChunkPlane == PlaneOf(source, (chunk - last.tangentPoint) % NumPositions)

\* C16: on a chunk of at least 2 rows that lies exactly on a plane
\* w = A0*u + B0*v and has |D| >= 1e-7, a refit of the Reactive policy commits
\* A = A0 and B = B0 and returns the deviation 0
C16_ExactPlaneRecovered ==
    (PolicyReturned /\ Me.itsPredictWPlane = FALSE /\ last.exit = "fitted")
    => /\ Me.itsCoeffA = ChunkPlane.A
       /\ Me.itsCoeffB = ChunkPlane.B
       /\ last.maxDeviation = Zero

C16_Witness ==
    /\ PolicyReturned /\ Me.itsPredictWPlane = FALSE /\ last.exit = "fitted"
    /\ Len(ChunkUVW) = 4 /\ ~Singular(LSF(ChunkUVW).D)
    /\ Me.itsCoeffA[2] # 1 /\ Me.itsCoeffB[2] # 1
    /\ last.pre.itsCoeffA # Zero /\ last.pre.itsCoeffA # Me.itsCoeffA

\* every row of the chunk of the last call has w = 0
FlatChunk == \A row \in 1..Len(ChunkUVW) : ChunkUVW[row][3] = 0

\* C17 as claimed: after a call on a chunk with w = 0 in every row, whatever
\* the tolerance and the coefficients committed before, the coefficients are
\* (0,0) and the deviation reported is 0
C17_FlatGivesZeroPlane ==
    (PolicyReturned /\ FlatChunk /\ Me.itsPredictWPlane = FALSE)
    => /\ Me.itsCoeffA = Zero
       /\ Me.itsCoeffB = Zero
       /\ last.maxDeviation = Zero

\* C17 as amended: on a chunk with w = 0 in every row, an adapter with the
\* coefficients (0,0) keeps them and reports the deviation 0; the Reactive
\* policy refits to (0,0) with deviation 0 when the deviation of the plane
\* committed before is not below the tolerance (at least 2 rows, |D| >= 1e-7),
\* and otherwise keeps that plane and reports its deviation
C17_FlatRefitGivesZeroPlane ==
    (PolicyReturned /\ FlatChunk)
    => /\ (last.pre.itsCoeffA = Zero /\ last.pre.itsCoeffB = Zero)
          => (~PlaneChanged /\ last.maxDeviation = Zero)
       /\ Me.itsPredictWPlane = FALSE
          => IF /\ ~RLess(DeviationBefore, ChunkTolerance)
                /\ Len(ChunkUVW) >= 2
                /\ LSF(ChunkUVW).D # 0
             THEN /\ Me.itsCoeffA = Zero /\ Me.itsCoeffB = Zero
                  /\ last.maxDeviation = Zero
                  /\ last.commits = 1
             ELSE ~PlaneChanged /\ last.maxDeviation = DeviationBefore

C17_Witness ==
    /\ PolicyReturned /\ FlatChunk /\ Me.itsPredictWPlane = FALSE
    /\ last.exit = "fitted" /\ last.pre.itsCoeffA # Zero
    /\ Me.itsCoeffA = Zero /\ last.maxDeviation = Zero

\* C18: no call, whether it returns or fails, and no assignment onto an adapter
\* makes its plane monitor smaller (a monitor that only grows never returns
\* to an earlier value), and the same holds for the monitor of the source and
\* for the adapter's own monitor of the uvw's
C18_EpochsMonotone ==
    [][/\ changeMonitor' >= changeMonitor
       /\ \A i \in Instances :
             /\ inst'[i].itsPlaneChangeMonitor >= inst[i].itsPlaneChangeMonitor
             /\ inst'[i].itsUVWChangeMonitor >= inst[i].itsUVWChangeMonitor]_vars

C18_Witness ==
    /\ last.op = "assign" /\ Me.itsPlaneChangeMonitor >= 3
    /\ Me.itsPlaneChangeMonitor > inst[3 - last.who].itsPlaneChangeMonitor
    /\ changeMonitor >= 2

\* C19: a call that follows a call which recomputed and returned, on the same
\* adapter and tangent point with no change of the source in between, is
\* served from the buffer: it does not ask the accessor for uvw's or
\* frequencies, evaluates no deviation and fits nothing
C19_ServedFromCache ==
    [][\A i \in Callers, tangentPoint \in TangentPoints :
          (/\ CallRotatedUVW(i, tangentPoint)
           /\ last.op = "rotatedUVW" /\ last.outcome = "ok"
           /\ last.who = i
           /\ last.tangentPoint = tangentPoint)
          => /\ last'.outcome = "cached"
             /\ last'.exit = "none"
             /\ last'.commits = 0]_vars

\* C20: an adapter is constructed with the coefficients (0,0); as long as it
\* has committed no fit (its plane monitor has not moved; it was not assigned
\* onto) the coefficients are (0,0), and every call on it that returns gives
\* the rows of the source unchanged
C20_ZeroUntilFirstCommit ==
    \A i \in Instances :
        (inst[i].itsPlaneChangeMonitor = 0 /\ inst[i].itsUVWChangeMonitor = 0)
        => /\ inst[i].itsCoeffA = Zero
           /\ inst[i].itsCoeffB = Zero
           /\ (ReturnedNormally(last) /\ last.who = i)
              => last.returned =
                    [row \in 1..Len(ChunkUVW) |->
                        <<ChunkUVW[row][1], ChunkUVW[row][2],
                          FromInt(ChunkUVW[row][3])>>]

C20_Witness ==
    /\ ReturnedNormally(last) /\ last.exit = "singular"
    /\ Me.itsPlaneChangeMonitor = 0 /\ Me.itsUVWChangeMonitor = 0
    /\ chunk >= 1 /\ Len(last.returned) >= 2
    /\ last.returned[2][3] # Zero

(***************************************************************************)
(* C21: a name made by paramName from an antenna, a beam, one of the four  *)
(* polarisation products and isBP is parsed by parseParam back into the    *)
(* same antenna, beam and product, and bpParam of the name is isBP.        *)
(***************************************************************************)
C21_NameRoundTrip ==
    (names.made /\ ~names.packed)
    => /\ names.op = "parseParam"
          => /\ names.outcome = "ok"
             /\ names.result = <<names.ant, names.beam, names.pol>>
       /\ names.op = "bpParam" => names.result = <<names.isBP>>

C21_Witness ==
    /\ names.made /\ ~names.packed /\ names.op = "parseParam"
    /\ names.isBP /\ names.pol = "YX" /\ names.ant = 35 /\ names.beam = 29
    /\ names.result = <<35, 29, "YX">>

(***************************************************************************)
(* C22: parseParam raises an error for every name that, after an optional  *)
(* "bp." prefix, is not of the form kind.pol.ant.beam with kind "gain" and *)
(* pol g11 or g22, or kind "leakage" and pol d12 or d21.                   *)
(***************************************************************************)
\* the fields of a name: the pieces between its dots
RECURSIVE FieldsOf(_)
FieldsOf(name) ==
    IF find(name, ".", 0) = npos THEN <<name>>
    ELSE <<substr(name, 0, find(name, ".", 0))>>
             \o FieldsOf(substrFrom(name, find(name, ".", 0) + 1))

IsNumber(field) == field # << >> /\ \A i \in 1..Len(field) : IsDigit(field[i])

\* kind.pol.ant.beam after an optional "bp."
WellFormed(name) ==
    LET f == FieldsOf(IF bpParam(name) THEN substrFrom(name, Len(bpPrefix)) ELSE name)
    IN  /\ Len(f) = 4
        /\ \/ f[1] = gainText /\ f[2] \in {g11, g22}
           \/ f[1] = leakageText /\ f[2] \in {d12, d21}
        /\ IsNumber(f[3])
        /\ IsNumber(f[4])

C22_MalformedRejected ==
    (names.op = "parseParam" /\ ~WellFormed(names.name))
    => names.outcome = "AskapError" /\ names.result = << >>

(***************************************************************************)
(* C23: extractChannelInfo of the name addChannelInfo made from a name and *)
(* a channel gives back the channel and the name; extractChannelInfo of a  *)
(* name without a dot, or of a name that ends with a dot, raises an error. *)
(***************************************************************************)
EndsWithDot(name) == name # << >> /\ name[Len(name)] = "."

C23_ChannelRoundTrip ==
    names.op = "extractChannelInfo"
    => /\ names.packed
          => names.outcome = "ok" /\ names.result = <<names.chan, names.base>>
       /\ (rfind(names.name, ".") = npos \/ EndsWithDot(names.name))
          => names.outcome = "AskapError"

C23_Witness ==
    /\ names.op = "extractChannelInfo" /\ names.packed /\ names.made
    /\ names.isBP /\ names.chan = MaxChannel
    /\ names.result = <<MaxChannel, names.base>>
    /\ Len(names.name) = Len(names.base) + 3

(***************************************************************************)
(* C24: on a table that is not writable rwVisibility and rwFlag fail with  *)
(* a logic error and leave both needs-flush marks as they were, so a sync  *)
(* after any number of such calls writes nothing back through the          *)
(* iterator.                                                               *)
(***************************************************************************)
C24_ReadOnlyRefused ==
    [][~table.mainTableWritable
       => /\ table'.op \in {"rwVisibility", "rwFlag"}
             => /\ table'.outcome = "DataAccessLogicError"
                /\ table'.itsVisNeedsFlush = table.itsVisNeedsFlush
                /\ table'.itsFlagNeedsFlush = table.itsFlagNeedsFlush
          /\ table'.visWrites = table.visWrites
          /\ table'.flagWrites = table.flagWrites
          /\ table'.tableVisibility = table.tableVisibility
          /\ table'.tableFlag = table.tableFlag]_vars

C24_Witness ==
    /\ ~table.mainTableWritable
    /\ table.op = "sync" /\ table.refused >= 2
    /\ table.visWrites = 0 /\ table.flagWrites = 0

(***************************************************************************)
(* C25: when a call under the Predictive policy has refitted and has not   *)
(* met a singular determinant, the plane it leaves committed is one whose  *)
(* maximum deviation from the coordinates at the tangent point of the call *)
(* is within the tolerance.                                                *)
(***************************************************************************)
PredictiveCall(l) == l.op = "rotatedUVW" /\ inst[l.who].itsPredictWPlane

C25_CommittedIsValidated ==
    (PredictiveCall(last) /\ last.exit = "fitted")
    => ~RLess(last.tolerance,
              maxWDeviation(inst[last.who].itsCoeffA, inst[last.who].itsCoeffB,
                            accRotatedUVW(last.tangentPoint)))

(***************************************************************************)
(* C26: when any fit of a call under the Predictive policy has a singular  *)
(* determinant (the fit of the chunk, or a fit at a rolled-back position   *)
(* in any pass of the roll-back loop), the coefficients and the plane      *)
(* epoch after the call are those before it.                               *)
(***************************************************************************)
C26_SingularCommitsNothing ==
    (PredictiveCall(last) /\ last.exit \in {"singular", "singularInLoop"})
    => /\ inst[last.who].itsCoeffA = last.pre.itsCoeffA
       /\ inst[last.who].itsCoeffB = last.pre.itsCoeffB
       /\ inst[last.who].itsPlaneChangeMonitor = last.pre.itsPlaneChangeMonitor

(***************************************************************************)
(* C27: under the Predictive policy, when the committed plane is not       *)
(* within the tolerance and the least-squares fit of the chunk itself has  *)
(* a maximum deviation above the tolerance, the call makes no time-advance *)
(* search, commits nothing and reports the deviation of that fit.          *)
(***************************************************************************)
\* the policy of the call was run on the chunk
PolicyRan(l) == l.op = "rotatedUVW" /\ l.outcome \in {"ok", "ToleranceExceeded", "hang"}

\* the maximum deviation of the least-squares fit of the rows from the rows
FitDeviation(uvw) == maxWDeviation(LSF(uvw).A, LSF(uvw).B, uvw)

HardViolation(l) ==
    /\ PredictiveCall(l) /\ PolicyRan(l)
    /\ ~RLess(maxWDeviation(l.pre.itsCoeffA, l.pre.itsCoeffB,
                            accRotatedUVW(l.tangentPoint)), l.tolerance)
    /\ LSF(accRotatedUVW(l.tangentPoint)).D # 0
    /\ RLess(l.tolerance, FitDeviation(accRotatedUVW(l.tangentPoint)))

C27_HardViolationReported ==
    HardViolation(last)
    => /\ last.outcome # "hang"
       /\ last.advances = 0 /\ last.iterations = 0 /\ last.commits = 0
       /\ inst[last.who].itsCoeffA = last.pre.itsCoeffA
       /\ inst[last.who].itsCoeffB = last.pre.itsCoeffB
       /\ inst[last.who].itsPlaneChangeMonitor = last.pre.itsPlaneChangeMonitor
       /\ last.maxDeviation = FitDeviation(accRotatedUVW(last.tangentPoint))

C27_Witness ==
    /\ HardViolation(last) /\ last.exit = "hard"
    /\ Len(accRotatedUVW(last.tangentPoint)) = 3
    /\ last.maxDeviation = FromInt(1)

(***************************************************************************)
(* C28: a call under the Predictive policy writes the coefficients and     *)
(* advances the plane epoch at most once.                                  *)
(***************************************************************************)
C28_OneCommitPerCall ==
    PredictiveCall(last)
    => /\ last.commits <= 1
       /\ inst[last.who].itsPlaneChangeMonitor <= last.pre.itsPlaneChangeMonitor + 1

(***************************************************************************)
(* C29: in a refit under the Predictive policy the time-advance loop stops *)
(* at the first position, k >= 1 increments past the tangent point of the  *)
(* call, where the deviation of the temporary plane is not below the       *)
(* tolerance, and the first plane to be committed is fitted from the       *)
(* coordinates at k - 1 increments past the tangent point of the call.     *)
(***************************************************************************)
\* the tangent point k increments of the frame past the tangent point of the call
Advanced(f, k) == shiftLongitude(f.tangentPoint, -1 * k * f.TimeShift)

\* the deviation of the temporary plane at k increments
TemporaryDeviation(f, k) ==
    maxWDeviation(f.tmpCoeffA, f.tmpCoeffB, accRotatedUVW(Advanced(f, k)))

\* the first pass of the roll-back loop is made in this step
FirstRollback == frame.pc = "rollback" /\ frame.iterations = 0 /\ frame'.iterations = 1

C29_FirstCandidateBracketed ==
    [][FirstRollback
       => /\ frame.advances >= 1
          /\ ~BelowTolerance(TemporaryDeviation(frame, frame.advances), frame.tolerance)
          /\ \A j \in 1..(frame.advances - 1) :
                 BelowTolerance(TemporaryDeviation(frame, j), frame.tolerance)
          /\ frame'.newTangentPoint = Advanced(frame, frame.advances - 1)]_vars

(***************************************************************************)
(* C30: during a call under the Predictive policy every tangent point the  *)
(* source is queried at, and every position a committed plane is fitted    *)
(* from, is the tangent point of the call advanced by a number of          *)
(* increments that is not negative: the roll-back loop never steps to a    *)
(* position before the tangent point of the call.                          *)
(***************************************************************************)
\* increments of newTangentPoint past the tangent point of the call: one up per
\* pass of the while loop, one down per pass of the do-while (both counted
\* exactly while the call has not gone once round the grid)
Offset(f) == f.advances - f.iterations

CountedExactly(f) == f.advances < NumPositions /\ f.iterations <= NumPositions

C30_NeverIntoThePast ==
    (frame.pc # "idle" /\ CountedExactly(frame))
    => /\ frame.newTangentPoint = Advanced(frame, Offset(frame))
       /\ Offset(frame) >= 0

(***************************************************************************)
(* C31: the value the Reactive policy returns is the maximum over the rows *)
(* of the chunk of |A*u + B*v - w| for the coefficients committed when it  *)
(* returns: the new ones after a refit, the ones committed before          *)
(* otherwise.                                                              *)
(***************************************************************************)
C31_ReactiveReportsCommitted ==
    (PolicyReturned /\ ~Me.itsPredictWPlane)
    => /\ last.maxDeviation = maxWDeviation(Me.itsCoeffA, Me.itsCoeffB, ChunkUVW)
       /\ last.exit # "fitted"
          => /\ Me.itsCoeffA = last.pre.itsCoeffA
             /\ Me.itsCoeffB = last.pre.itsCoeffB
             /\ last.maxDeviation = DeviationBefore

C31_Witness ==
    /\ PolicyReturned /\ ~Me.itsPredictWPlane /\ last.exit = "fitted"
    /\ last.maxDeviation = FromInt(1)
    /\ DeviationBefore = FromInt(3)
    /\ Me.itsCoeffA = FromInt(1) /\ Me.itsCoeffB = FromInt(1)

(***************************************************************************)
(* C32: the coefficients a fit commits solve the normal equations of the   *)
(* rows it was made from: with the sums su2, sv2, suv, suw, svw of the     *)
(* rows and D = su2*sv2 - suv^2 not singular, A*su2 + B*suv = suw and      *)
(* A*suv + B*sv2 = svw, that is A*D = sv2*suw - suv*svw and                *)
(* B*D = su2*svw - suv*suw; the fit of the Reactive policy, the temporary  *)
(* fit and the fit of the roll-back loop of the Predictive policy give the *)
(* same (A, B) for the same rows.                                          *)
(***************************************************************************)
C32_NormalEquations ==
    LET \* (a, b) solve the normal equations of the rows with these sums
        SolvesSums(a, b, su2, sv2, suv, suw, svw) ==
            /\ ~Singular(su2 * sv2 - suv * suv)
            /\ RAdd(RMul(a, FromInt(su2)), RMul(b, FromInt(suv))) = FromInt(suw)
            /\ RAdd(RMul(a, FromInt(suv)), RMul(b, FromInt(sv2))) = FromInt(svw)
            /\ RMul(a, FromInt(su2 * sv2 - suv * suv)) = FromInt(sv2 * suw - suv * svw)
            /\ RMul(b, FromInt(su2 * sv2 - suv * suv)) = FromInt(su2 * svw - suv * suw)
        Solves(a, b, uvw) ==
            SolvesSums(a, b, SumOfProducts(uvw, 1, 1), SumOfProducts(uvw, 2, 2),
                       SumOfProducts(uvw, 1, 2), SumOfProducts(uvw, 1, 3),
                       SumOfProducts(uvw, 2, 3))
        \* when the Reactive policy, made to refit by a new adapter with the
        \* tolerance 0, fits the rows, it commits (a, b)
        SameAsReactive(a, b, uvw) ==
            With(updatePlaneIfNecessary(Construct(0, FALSE), uvw, Zero), LAMBDA r :
                r.exit = "fitted" => (r.me.itsCoeffA = a /\ r.me.itsCoeffB = b))
        \* the rows the last commit of the last call (under the Predictive
        \* policy) was fitted from: each pass of the roll-back loop steps back
        \* once and commits, but for a pass that ended the call on a singular
        \* determinant
        LastFitUVW ==
            accRotatedUVW(shiftLongitude(last.tangentPoint,
                -1 * Me.itsPredictTimeInterval
                   * (last.advances - last.iterations
                          + (IF last.exit = "singularInLoop" THEN 1 ELSE 0))))
        LastCountedExactly ==
            /\ last.outcome # "hang"
            /\ last.advances < NumPositions /\ last.iterations <= NumPositions
        \* the call of the last operation as it was entered: the adapter with
        \* the coefficients it had then
        EnteredLast ==
            PredictEnter([Me EXCEPT !.itsCoeffA = last.pre.itsCoeffA,
                                    !.itsCoeffB = last.pre.itsCoeffB],
                         last.who, last.tolerance, last.tangentPoint, << >>)
        \* the temporary fit of the last call, if it made one
        TemporaryFitSolves ==
            With(EnteredLast, LAMBDA f :
                (f.exit = "hard" \/ f.pc = "advance")
                => /\ Solves(f.tmpCoeffA, f.tmpCoeffB, ChunkUVW)
                   /\ SameAsReactive(f.tmpCoeffA, f.tmpCoeffB, ChunkUVW))
    IN  /\ (PolicyReturned /\ ~Me.itsPredictWPlane /\ last.exit = "fitted")
           => Solves(Me.itsCoeffA, Me.itsCoeffB, ChunkUVW)
        /\ (PredictiveCall(last) /\ last.commits >= 1 /\ LastCountedExactly)
           => /\ Solves(Me.itsCoeffA, Me.itsCoeffB, LastFitUVW)
              /\ SameAsReactive(Me.itsCoeffA, Me.itsCoeffB, LastFitUVW)
        /\ (PredictiveCall(last) /\ PolicyRan(last)) => TemporaryFitSolves

(***************************************************************************)
(* C33: for all rows and all (A, B) maxWDeviation returns the largest of   *)
(* |A*u + B*v - w| over the rows, 0 when there are no rows, never a        *)
(* negative value, and it changes nothing of the adapter.                  *)
(***************************************************************************)
C33_DeviationMetric ==
    LET \* |a*u + b*v - w| of a row
        RowDeviation(a, b, row) ==
            RAbs(RSub(RAdd(RMul(a, FromInt(row[1])), RMul(b, FromInt(row[2]))),
                      FromInt(row[3])))
        \* r is the largest of the deviations of the rows, 0 if there is no row
        IsMaxDeviation(r, a, b, uvw) ==
            /\ ~RLess(r, Zero)
            /\ Len(uvw) = 0 => r = Zero
            /\ \A row \in 1..Len(uvw) : ~RLess(r, RowDeviation(a, b, uvw[row]))
            /\ Len(uvw) > 0
               => \E row \in 1..Len(uvw) : r = RowDeviation(a, b, uvw[row])
    IN  /\ \A i \in Instances, tangentPoint \in TangentPoints :
              IsMaxDeviation(maxWDeviation(inst[i].itsCoeffA, inst[i].itsCoeffB,
                                           accRotatedUVW(tangentPoint)),
                             inst[i].itsCoeffA, inst[i].itsCoeffB,
                             accRotatedUVW(tangentPoint))
        \* a policy that ends at its first test or at a singular determinant
        \* has written nothing: the only thing it evaluated on the adapter is
        \* maxWDeviation
        /\ (PolicyReturned /\ last.exit \in {"within", "singular"})
           => /\ IsMaxDeviation(last.maxDeviation, last.pre.itsCoeffA,
                                last.pre.itsCoeffB, ChunkUVW)
              /\ ~PlaneChanged

C33_Witness ==
    LET \* |A*u + B*v - w| of a row of the chunk for the coefficients of the adapter
        RowDeviation(row) ==
            RAbs(RSub(RAdd(RMul(Me.itsCoeffA, FromInt(ChunkUVW[row][1])),
                           RMul(Me.itsCoeffB, FromInt(ChunkUVW[row][2]))),
                      FromInt(ChunkUVW[row][3])))
    IN  /\ PolicyReturned /\ last.exit = "within"
        /\ Len(ChunkUVW) = 3
        /\ Me.itsCoeffA # Zero /\ Me.itsCoeffB # Zero
        /\ last.maxDeviation = RowDeviation(1)
        /\ RLess(RowDeviation(3), last.maxDeviation)
        /\ RLess(Zero, RowDeviation(3))

C35_FailedCheckChangesNothing ==
    [][(last'.op = "rotatedUVW" /\ last'.outcome = "ToleranceExceeded")
       => \A i \in Instances :
              /\ inst'[i].itsCoeffA = inst[i].itsCoeffA
              /\ inst'[i].itsCoeffB = inst[i].itsCoeffB
              /\ inst'[i].itsPlaneChangeMonitor = inst[i].itsPlaneChangeMonitor
              /\ inst'[i].itsRotatedUVW = inst[i].itsRotatedUVW]_vars

(***************************************************************************)
(* C36: under the Reactive policy the deviation returned after a refit is  *)
(* not above the maximum deviation of the plane committed before from the  *)
(* same chunk.                                                             *)
(***************************************************************************)
C36_RefitNotWorse ==
    (PolicyReturned /\ ~Me.itsPredictWPlane /\ last.exit = "fitted")
    => ~RLess(DeviationBefore, last.maxDeviation)

(***************************************************************************)
(* C37: the assignment a = b of another adapter gives a the tolerance, the *)
(* checkResidual flag, the policy settings and the coefficients of b,      *)
(* advances the plane epoch of a, and leaves the buffer of a stale: the    *)
(* next call on a recomputes from the source and does not return the       *)
(* buffer copied from b.  The assignment a = a changes nothing, the plane  *)
(* epoch included.                                                         *)
(***************************************************************************)
C37_AssignmentInvalidates ==
    [][LET \* the settings and the coefficients of one adapter are those of the other
            SameSettings(me, other) ==
                /\ me.itsWTolerance = other.itsWTolerance
                /\ me.itsCheckResidual = other.itsCheckResidual
                /\ me.itsPredictWPlane = other.itsPredictWPlane
                /\ me.itsPredictTimeInterval = other.itsPredictTimeInterval
                /\ me.itsCoeffA = other.itsCoeffA
                /\ me.itsCoeffB = other.itsCoeffB
            \* a call on the adapter takes the branch of line 111: it returns the
            \* buffer, or fails on the tangent point, without asking the source
            TakesBuffer(me, tangentPoint) ==
                rotatedUVW(me, tangentPoint).outcome
                    \in {"cached", "TangentPointMismatch"}
        IN  /\ \A a \in Instances, b \in Instances :
                  Assign(a, b)
                  => /\ SameSettings(inst'[a], inst[b])
                     /\ inst'[a].itsPlaneChangeMonitor > inst[a].itsPlaneChangeMonitor
                     /\ \A tangentPoint \in TangentPoints :
                            ~TakesBuffer(inst'[a], tangentPoint)
            /\ \A a \in Instances : SelfAssign(a) => inst' = inst]_vars

(***************************************************************************)
(* C38: the order of JonesIndex is a strict total order that agrees with   *)
(* its equality: of a < b, a == b and b < a exactly one holds; a < b and   *)
(* b < c give a < c; a == b holds exactly when the antennas are equal and  *)
(* the beams are equal; a != b is the negation of a == b; and a < b is the *)
(* lexicographic order by antenna, then by beam.                           *)
(***************************************************************************)
C38_StrictTotalOrder ==
    LET \* exactly one of the three holds
        ExactlyOne(p, q, r) == (p /\ ~q /\ ~r) \/ (~p /\ q /\ ~r) \/ (~p /\ ~q /\ r)
        \* x is before y by antenna, then by beam
        Lexicographic(x, y) ==
            \/ x.itsAntenna < y.itsAntenna
            \/ x.itsAntenna = y.itsAntenna /\ x.itsBeam < y.itsBeam
    IN  index.op = "compare"
        => /\ \A x \in Slots, y \in Slots :
                 /\ ExactlyOne(index.less[<<x, y>>], index.equal[<<x, y>>],
                               index.less[<<y, x>>])
                 /\ index.equal[<<x, y>>]
                    <=> (index[x].itsAntenna = index[y].itsAntenna
                            /\ index[x].itsBeam = index[y].itsBeam)
                 /\ index.differ[<<x, y>>] <=> ~index.equal[<<x, y>>]
                 /\ index.less[<<x, y>>] <=> Lexicographic(index[x], index[y])
           /\ \A x \in Slots, y \in Slots, z \in Slots :
                 (index.less[<<x, y>>] /\ index.less[<<y, z>>]) => index.less[<<x, z>>]

C38_Witness ==
    /\ index.op = "compare"
    /\ index.a.itsAntenna = index.b.itsAntenna /\ index.a.itsBeam < index.b.itsBeam
    /\ index.b.itsAntenna < index.c.itsAntenna /\ index.b.itsBeam > index.c.itsBeam
    /\ index.less[<<"a", "b">>] /\ index.less[<<"b", "c">>] /\ index.less[<<"a", "c">>]
    /\ index.differ[<<"a", "c">>] /\ ~index.less[<<"c", "a">>]
    /\ index.equal[<<"b", "b">>]

====
